---- MODULE Spec2Model ----
\* A verification model of go-maml: the lexer, the parser, the decoder, the
\* struct-field resolver, the encoder and the formatter.
\*
\* Text is a sequence of runes, each rune its Unicode code point, so the
\* lexer's numeric range checks are the source's own.  A byte that is no valid
\* UTF-8 is the rune 65533 (utf8.RuneError), which is what bufio.ReadRune
\* hands the lexer for it.
EXTENDS Integers, Sequences, FiniteSets, TLC

VARIABLES
    src,      \* lexer: the input, a sequence of runes
    lx,       \* lexer: [pos, line, column]; pos is the index in src of l.ch
    tok,      \* lexer: the token the last NextToken call returned
    tokOff,   \* lexer (ghost): index in src of the rune l.ch when tok was started
    prevPos,  \* lexer (ghost): lx.pos when the last NextToken call was made
    ntok,     \* lexer (ghost): number of NextToken calls made so far
    eofSeen,  \* lexer (ghost): an earlier call has already returned EOF
    toks,     \* parser: the tokens the lexer returns for src, EOF last
    cur,      \* parser: index in toks of p.curToken (p.peekToken is the next)
    pmode,    \* parser: p.parseComments
    perrs,    \* parser: p.errors
    stack,    \* parser: the parse functions in progress, innermost last
    ret,      \* parser: the expression the last finished parseExpression returned
    pc,       \* parser: where the parser is
    doc,      \* parser: the document Parse builds
    rets,     \* parser (ghost): the sub-routine calls that returned in the last step
    heap,     \* encoder: the value being encoded, a graph of memory locations
    estack,   \* encoder: the marshal calls in progress, innermost last
    seen,     \* encoder: e.seen, the addresses of the references being encoded
    ecall,    \* encoder: the location marshalValue is about to be called on, or 0
    estatus,  \* encoder: "init", "running", "returning <error>", "ok", "overflow" or the error
    dexpr,    \* decoder: the expression of the document's statement
    dtype,    \* decoder: the type of the value the caller's pointer points to
    dmax,     \* decoder: the MaxDepth option, 0 if it is not given
    dout,     \* decoder: what decodeDocument returned
    ftype,    \* field resolver: the struct type, a sequence of fields
    fcache,   \* field resolver: fieldCache's entry for the type
    fpc,      \* field resolver: where each caller of cachedFields is
    fres,     \* field resolver: the map each caller was returned
    rtval,    \* round trip: the caller's value, with its type
    rtopts,   \* round trip: the encoder's options
    rtstage,  \* round trip: "init", "marshaled", "parsing" or "done"
    rtenc,    \* round trip: what Marshal returned
    rtout,    \* round trip: what Unmarshal returned and stored
    pin,      \* single calls: the arguments of the function called
    pout      \* single calls: what the call returned, once it has

lexVars == <<src, lx, tok, tokOff, prevPos, ntok, eofSeen>>

parVars == <<toks, cur, pmode, perrs, stack, ret, pc, doc, rets>>

encVars == <<heap, estack, seen, ecall, estatus>>

decVars == <<dexpr, dtype, dmax, dout>>

fldVars == <<ftype, fcache, fpc, fres>>

rtVars == <<rtval, rtopts, rtstage, rtenc, rtout>>

fnVars == <<pin, pout>>

vars == <<lexVars, parVars, encVars, decVars, fldVars, rtVars, fnVars>>

\* What the steps of one component leave alone.
notLexVars == <<parVars, encVars, decVars, fldVars, rtVars, fnVars>>

notParVars == <<lexVars, encVars, decVars, fldVars, rtVars, fnVars>>

notEncVars == <<lexVars, parVars, decVars, fldVars, rtVars, fnVars>>

notDecVars == <<lexVars, parVars, encVars, fldVars, rtVars, fnVars>>

notFldVars == <<lexVars, parVars, encVars, decVars, rtVars, fnVars>>

notRtVars == <<encVars, decVars, fldVars, fnVars>>

notFnVars == <<lexVars, parVars, encVars, decVars, fldVars, rtVars>>

Min(a, b) == IF a < b THEN a ELSE b
Max(a, b) == IF a > b THEN a ELSE b

RECURSIVE Flatten(_)
Flatten(ss) == IF ss = <<>> THEN <<>> ELSE Head(ss) \o Flatten(Tail(ss))

SeqsUpTo(S, n) == UNION {[1..k -> S] : k \in 0..n}

----------------------------------------------------------------------------
\* Lexer (src/internal/lexer/lexer.go)

EOFch == -1
RuneError == 65533

\* l.ch for the lexer state st over input s.
Ch(s, st) == IF st.pos <= Len(s) THEN s[st.pos] ELSE EOFch

peekRune(s, st) == IF st.pos + 1 <= Len(s) THEN s[st.pos + 1] ELSE 0

peekNextRune(s, st) == IF st.pos + 2 <= Len(s) THEN s[st.pos + 2] ELSE 0

NewLexer == [pos |-> 1, line |-> 1, column |-> 1]

advance_noReset(s, st) ==
    [pos    |-> IF st.pos <= Len(s) THEN st.pos + 1 ELSE st.pos,
     line   |-> IF Ch(s, st) = 10 THEN st.line + 1 ELSE st.line,
     column |-> st.column + 1]

advance(s, st) ==
    [pos    |-> IF st.pos <= Len(s) THEN st.pos + 1 ELSE st.pos,
     line   |-> IF Ch(s, st) = 10 THEN st.line + 1 ELSE st.line,
     column |-> (IF Ch(s, st) = 10 THEN 0 ELSE st.column) + 1]

RECURSIVE skipWhitespace(_, _)
skipWhitespace(s, st) ==
    IF Ch(s, st) = 32 \/ Ch(s, st) = 9
    THEN skipWhitespace(s, advance(s, st))
    ELSE st

isForbiddenControlChar(ch) ==
    (ch >= 0 /\ ch <= 8) \/ (ch >= 10 /\ ch <= 31) \/ ch = 127

isDigit(ch) == 48 <= ch /\ ch <= 57

isIdentifierChar(ch) ==
    (97 <= ch /\ ch <= 122) \/ (65 <= ch /\ ch <= 90) \/ isDigit(ch)
        \/ ch = 95 \/ ch = 45

\* b f n r t " \ /
unescape(ch) ==
    CASE ch = 98  -> 8
      [] ch = 102 -> 12
      [] ch = 110 -> 10
      [] ch = 114 -> 13
      [] ch = 116 -> 9
      [] ch = 34  -> 34
      [] ch = 92  -> 92
      [] ch = 47  -> 47
      [] OTHER    -> 0

\* The result of a read: ok, the literal (lit) or the diagnostic (msg, with the
\* rune it names in arg), and the lexer state the read leaves behind.
ReadOk(buf, st) == [ok |-> TRUE, lit |-> buf, msg |-> "", arg |-> 0, st |-> st]
ReadErr(m, a, st) == [ok |-> FALSE, lit |-> <<>>, msg |-> m, arg |-> a, st |-> st]

RECURSIVE commentLoop(_, _, _)
commentLoop(s, st, buf) ==
    LET ch == Ch(s, st) IN
    IF ch # 10 /\ ch # EOFch
    THEN IF isForbiddenControlChar(ch)
         THEN ReadErr("forbidden control character in comment", ch, st)
         ELSE commentLoop(s, advance(s, st), Append(buf, ch))
    ELSE ReadOk(buf, st)

readComment(s, st) == commentLoop(s, skipWhitespace(s, advance(s, st)), <<>>)

RECURSIVE identLoop(_, _, _)
identLoop(s, st, buf) ==
    IF isIdentifierChar(Ch(s, st))
    THEN identLoop(s, advance(s, st), Append(buf, Ch(s, st)))
    ELSE ReadOk(buf, st)

readIdentifier(s, st) == identLoop(s, st, <<>>)

RECURSIVE numberLoop(_, _, _)
numberLoop(s, st, buf) ==
    LET ch == Ch(s, st) IN
    IF isIdentifierChar(ch) \/ ch = 46 \/ ch = 101 \/ ch = 69 \/ ch = 43
    THEN numberLoop(s, advance(s, st), Append(buf, ch))
    ELSE ReadOk(buf, st)

readPotentialNumberOrIdentifier(s, st) == numberLoop(s, st, <<>>)

\* readHex(n): n times advance and take one hex digit; st is the state before
\* the next advance, val the value so far.
RECURSIVE readHex(_, _, _, _)
readHex(s, st, n, val) ==
    IF n = 0 THEN [ok |-> TRUE, val |-> val, st |-> st]
    ELSE LET s1 == advance(s, st)
             ch == Ch(s, s1)
         IN  IF 48 <= ch /\ ch <= 57
             THEN readHex(s, s1, n - 1, val * 16 + (ch - 48))
             ELSE IF 97 <= ch /\ ch <= 102
             THEN readHex(s, s1, n - 1, val * 16 + (ch - 97 + 10))
             ELSE IF 65 <= ch /\ ch <= 70
             THEN readHex(s, s1, n - 1, val * 16 + (ch - 65 + 10))
             ELSE [ok |-> FALSE, val |-> 0, st |-> s1]

\* Returns the rune r of the escape, or the diagnostic; st is where l.ch is
\* on return (the last rune of the escape when ok).
readEscapeSequence(s, st) ==
    LET s1 == advance(s, st)
        ch == Ch(s, s1)
    IN  IF ch \in {98, 102, 110, 114, 116, 34, 92, 47}
        THEN [ok |-> TRUE, r |-> unescape(ch), msg |-> "", arg |-> 0, st |-> s1]
        ELSE IF ch = 117
        THEN LET h == readHex(s, s1, 4, 0) IN
             IF ~h.ok
             THEN [ok |-> FALSE, r |-> 0, msg |-> "invalid unicode escape",
                   arg |-> 0, st |-> h.st]
             ELSE IF h.val >= 55296 /\ h.val <= 57343
             THEN [ok |-> FALSE, r |-> 0,
                   msg |-> "invalid unicode scalar value (surrogate pair)",
                   arg |-> 0, st |-> h.st]
             ELSE [ok |-> TRUE, r |-> h.val, msg |-> "", arg |-> 0, st |-> h.st]
        ELSE [ok |-> FALSE, r |-> 0, msg |-> "invalid escape sequence",
              arg |-> ch, st |-> s1]

RECURSIVE singleLineLoop(_, _, _)
singleLineLoop(s, st, buf) ==
    LET ch == Ch(s, st) IN
    IF ch = 34 THEN ReadOk(buf, advance(s, st))
    ELSE IF ch = 10 \/ ch = EOFch THEN ReadErr("unterminated string", 0, st)
    ELSE IF ch = 92
    THEN LET e == readEscapeSequence(s, st) IN
         IF ~e.ok THEN ReadErr(e.msg, e.arg, e.st)
         ELSE singleLineLoop(s, advance(s, e.st), Append(buf, e.r))
    ELSE IF ch = RuneError THEN ReadErr("invalid utf-8 sequence in string", 0, st)
    ELSE IF isForbiddenControlChar(ch)
    THEN ReadErr("forbidden control character in string", ch, st)
    ELSE singleLineLoop(s, advance(s, st), Append(buf, ch))

readSingleLineString(s, st) == singleLineLoop(s, advance(s, st), <<>>)

RECURSIVE multilineLoop(_, _, _)
multilineLoop(s, st, buf) ==
    LET ch == Ch(s, st) IN
    IF ch = EOFch THEN ReadErr("unterminated multiline string", 0, st)
    ELSE IF ch = 34 /\ peekRune(s, st) = 34 /\ peekNextRune(s, st) = 34
    THEN ReadOk(buf, advance(s, advance(s, advance(s, st))))
    ELSE IF ch = RuneError THEN ReadErr("invalid utf-8", 0, st)
    ELSE IF ch # 10 /\ isForbiddenControlChar(ch)
    THEN ReadErr("forbidden control character in multiline string", ch, st)
    ELSE multilineLoop(s, advance(s, st), Append(buf, ch))

readMultilineString(s, st) ==
    LET s3 == advance(s, advance(s, advance(s, st)))
        s4 == IF Ch(s, s3) = 10 THEN advance(s, s3) ELSE s3
    IN  multilineLoop(s, s4, <<>>)

readString(s, st) ==
    IF peekRune(s, st) = 34 /\ peekNextRune(s, st) = 34
    THEN readMultilineString(s, st)
    ELSE readSingleLineString(s, st)

\* --- the number ABNF (ParseAsNumber and its helpers); indices are 1-based,
\* so index i here is the source's i + 1.

RECURSIVE consumeDigits(_, _)
consumeDigits(s, i) ==
    IF i <= Len(s) /\ isDigit(s[i]) THEN consumeDigits(s, i + 1) ELSE i

\* parseIntegerPart without its check of a leading zero
parseIntegerPart_leadingZero(s, i) ==
    LET j == consumeDigits(s, i) IN
    IF j = i THEN [i |-> j, ok |-> FALSE]
    ELSE [i |-> j, ok |-> TRUE]

parseIntegerPart(s, i) ==
    LET j == consumeDigits(s, i) IN
    IF j = i THEN [i |-> j, ok |-> FALSE]
    ELSE IF j - i > 1 /\ s[i] = 48 THEN [i |-> j, ok |-> FALSE]
    ELSE [i |-> j, ok |-> TRUE]

parseFractionalPart(s, i) ==
    IF i > Len(s) \/ s[i] # 46 THEN [i |-> i, ok |-> TRUE, isFloat |-> FALSE]
    ELSE LET j == consumeDigits(s, i + 1) IN
         IF j = i + 1 THEN [i |-> j, ok |-> FALSE, isFloat |-> TRUE]
         ELSE [i |-> j, ok |-> TRUE, isFloat |-> TRUE]

parseExponentPart(s, i) ==
    IF i > Len(s) \/ (s[i] # 101 /\ s[i] # 69)
    THEN [i |-> i, ok |-> TRUE, isFloat |-> FALSE]
    ELSE LET i1 == i + 1
             i2 == IF i1 <= Len(s) /\ (s[i1] = 43 \/ s[i1] = 45) THEN i1 + 1 ELSE i1
             j  == consumeDigits(s, i2)
         IN  IF j = i2 THEN [i |-> j, ok |-> FALSE, isFloat |-> TRUE]
             ELSE [i |-> j, ok |-> TRUE, isFloat |-> TRUE]

ParseAsNumber(s) ==
    IF Len(s) = 0 THEN [type |-> "ILLEGAL", ok |-> FALSE]
    ELSE IF s[1] = 45 /\ Len(s) = 1 THEN [type |-> "ILLEGAL", ok |-> FALSE]
    ELSE LET i0 == IF s[1] = 45 THEN 2 ELSE 1
             ip == parseIntegerPart(s, i0)
             fp == parseFractionalPart(s, ip.i)
             ep == parseExponentPart(s, fp.i)
         IN  IF ~ip.ok THEN [type |-> "ILLEGAL", ok |-> FALSE]
             ELSE IF ~fp.ok THEN [type |-> "ILLEGAL", ok |-> FALSE]
             ELSE IF ~ep.ok THEN [type |-> "ILLEGAL", ok |-> FALSE]
             ELSE IF ep.i # Len(s) + 1 THEN [type |-> "ILLEGAL", ok |-> FALSE]
             ELSE IF fp.isFloat \/ ep.isFloat THEN [type |-> "FLOAT", ok |-> TRUE]
             ELSE [type |-> "INT", ok |-> TRUE]

\* src/internal/token/token.go: the keywords table.
LookupIdent(lit) ==
    IF lit = <<116, 114, 117, 101>> THEN "TRUE"
    ELSE IF lit = <<102, 97, 108, 115, 101>> THEN "FALSE"
    ELSE IF lit = <<110, 117, 108, 108>> THEN "NULL"
    ELSE "IDENT"

\* token.Type(l.ch) for the six delimiters.
DelimType(ch) ==
    CASE ch = 123 -> "{"
      [] ch = 125 -> "}"
      [] ch = 91  -> "["
      [] ch = 93  -> "]"
      [] ch = 44  -> ","
      [] ch = 58  -> ":"

Token(type, lit, msg, arg, st) ==
    [type |-> type, lit |-> lit, msg |-> msg, arg |-> arg,
     line |-> st.line, column |-> st.column]

\* The l.advance() that ends NextToken for the tokens read in place.
finishToken_noAdvance(s, st) == st

finishToken(s, st) == advance(s, st)

\* One NextToken call from lexer state st0: the token, the state left behind,
\* and (ghost) the index of the rune the token was started on.
NextToken(s, st0) ==
    LET st == skipWhitespace(s, st0)
        ch == Ch(s, st)
        R(type, lit, msg, arg, stAfter) ==
            [tok |-> Token(type, lit, msg, arg, st), st |-> stAfter, off |-> st.pos]
    IN  IF ch \in {123, 125, 91, 93, 44, 58}
        THEN R(DelimType(ch), <<ch>>, "", 0, finishToken(s, st))
        ELSE IF ch = 13
        THEN IF peekRune(s, st) = 10
             THEN R("NEWLINE", <<13, 10>>, "", 0, finishToken(s, advance(s, st)))
             ELSE R("ILLEGAL", <<13>>, "", 0, finishToken(s, st))
        ELSE IF ch = 10
        THEN R("NEWLINE", <<10>>, "", 0, finishToken(s, st))
        ELSE IF ch = 35
        THEN LET c == readComment(s, st) IN
             R(IF c.ok THEN "COMMENT" ELSE "ILLEGAL", c.lit, c.msg, c.arg, c.st)
        ELSE IF ch = 34
        THEN LET c == readString(s, st) IN
             R(IF c.ok THEN "STRING" ELSE "ILLEGAL", c.lit, c.msg, c.arg, c.st)
        ELSE IF ch = EOFch
        THEN R("EOF", <<>>, "", 0, st)
        ELSE IF isDigit(ch)
                \/ (ch = 45 /\ (isDigit(peekRune(s, st)) \/ peekRune(s, st) = 46))
        THEN LET c == readPotentialNumberOrIdentifier(s, st)
                 n == ParseAsNumber(c.lit)
             IN  R(IF n.ok THEN n.type ELSE "IDENT", c.lit, "", 0, c.st)
        ELSE IF isIdentifierChar(ch)
        THEN LET c == readIdentifier(s, st) IN
             R(LookupIdent(c.lit), c.lit, "", 0, c.st)
        ELSE IF ch = RuneError
        THEN R("ILLEGAL", <<>>, "invalid utf-8", 0, finishToken(s, st))
        ELSE R("ILLEGAL", <<ch>>, "", 0, finishToken(s, st))

\* The parser's variables while another component runs.
ParIdle ==
    /\ toks = <<>>
    /\ cur = 0
    /\ pmode = FALSE
    /\ perrs = <<>>
    /\ stack = <<>>
    /\ ret = [k |-> "nil"]
    /\ pc = "idle"
    /\ doc = [head |-> <<>>, stmts |-> <<>>]
    /\ rets = <<>>

\* No single call is made while another component runs.
FnIdle ==
    /\ pin = [k |-> "nil"]
    /\ pout = [done |-> FALSE]

\* The round trip's variables while another component runs.
RtIdle ==
    /\ rtval = [t |-> [k |-> "any"], v |-> [k |-> "nil"]]
    /\ rtopts = [indent |-> 0, inlineStrings |-> FALSE, inlineArrays |-> FALSE,
                 useFieldCommas |-> FALSE, useTrailingCommas |-> FALSE]
    /\ rtstage = "idle"
    /\ rtenc = [err |-> "", text |-> <<>>]
    /\ rtout = [err |-> "", v |-> [k |-> "nil"]]

\* The field resolver's variables while another component runs.
FldIdle ==
    /\ ftype = <<>>
    /\ fcache = [ok |-> FALSE]
    /\ fpc = <<>>
    /\ fres = <<>>

\* The decoder's variables while another component runs.
DecIdle ==
    /\ dexpr = [k |-> "nil"]
    /\ dtype = [k |-> "any"]
    /\ dmax = 0
    /\ dout = [done |-> FALSE]

\* The encoder's variables while another component runs.
EncIdle ==
    /\ heap = <<>>
    /\ estack = <<>>
    /\ seen = {}
    /\ ecall = 0
    /\ estatus = "idle"

\* The lexer's variables while another component runs on the text s.
LexIdle(s) ==
    /\ src = s
    /\ lx = NewLexer
    /\ tok = [type |-> "NONE", lit |-> <<>>, msg |-> "", arg |-> 0,
              line |-> 0, column |-> 0]
    /\ tokOff = 0
    /\ prevPos = 0
    /\ ntok = 0
    /\ eofSeen = FALSE

\* --- the lexer as a state machine: New, then NextToken calls.

MaxChunks == 4
ExtraCalls == 2

\* The pieces the inputs are made of:  """  "  LF  CR  space  n  1  #  \  an
\* invalid byte  {
LexChunks ==
    { <<34, 34, 34>>, <<34>>, <<10>>, <<13>>, <<32>>, <<110>>, <<49>>, <<35>>,
      <<92>>, <<RuneError>>, <<123>> }

LexInputs == { Flatten(cs) : cs \in SeqsUpTo(LexChunks, MaxChunks) }

NoToken == [type |-> "NONE", lit |-> <<>>, msg |-> "", arg |-> 0,
            line |-> 0, column |-> 0]

InitLex ==
    /\ src \in LexInputs
    /\ lx = NewLexer
    /\ tok = NoToken
    /\ tokOff = 0
    /\ prevPos = 0
    /\ ntok = 0
    /\ eofSeen = FALSE
    /\ ParIdle
    /\ EncIdle
    /\ DecIdle
    /\ FldIdle
    /\ RtIdle
    /\ FnIdle

\* A caller's NextToken call.  The calls are capped at ExtraCalls more than
\* the input has runes.
LexNextToken ==
    /\ ntok < Len(src) + ExtraCalls
    /\ LET r == NextToken(src, lx) IN
       /\ tok' = r.tok
       /\ lx' = r.st
       /\ tokOff' = r.off
    /\ prevPos' = lx.pos
    /\ ntok' = ntok + 1
    /\ eofSeen' = (eofSeen \/ tok.type = "EOF")
    /\ UNCHANGED src
    /\ UNCHANGED notLexVars

NextLex == LexNextToken

SpecLex == InitLex /\ [][NextLex]_vars

\* C2: the lexer is total.  Every call that is not at the end of the input
\* consumes a rune, so the call numbered Len(src) + 1 at the latest returns
\* EOF; and after an EOF every later call returns EOF.
C2_EofReachedAndRepeated ==
    /\ ntok >= Len(src) + 1 => tok.type = "EOF"
    /\ eofSeen => tok.type = "EOF"
    /\ (ntok > 0 /\ tok.type # "EOF") => lx.pos > prevPos

C2_Witness ==
    /\ eofSeen
    /\ tok.type = "EOF"
    /\ Len(src) >= 3
    /\ ntok >= 4

\* C25: an ILLEGAL token of a string (a token that starts at a double quote)
\* never has the message "invalid utf-8" of an invalid byte outside a string:
\* invalid UTF-8 in a string is reported with a message that names the kind of
\* string.
C25_Utf8MessageNamesString ==
    (ntok > 0 /\ tok.type = "ILLEGAL" /\ tokOff <= Len(src) /\ src[tokOff] = 34) =>
        tok.msg # "invalid utf-8"

\* The 1-based line and rune-counted column of index off of the text s.
LineOf(s, off) == 1 + Cardinality({i \in 1..(off - 1) : i <= Len(s) /\ s[i] = 10})

ColumnOf(s, off) ==
    LET nls == {i \in 1..(off - 1) : i <= Len(s) /\ s[i] = 10}
        last == IF nls = {} THEN 0 ELSE CHOOSE i \in nls : \A j \in nls : j <= i
    IN  off - last

\* C6: every token's (line, column) is the position in the source of the first
\* rune of its lexeme: the first rune that is neither space nor tab at or after
\* the place where the previous token ended.
C6_TokenPosition ==
    ntok > 0 =>
        /\ prevPos <= tokOff
        /\ \A i \in prevPos..(tokOff - 1) : src[i] \in {32, 9}
        /\ tokOff <= Len(src) => src[tokOff] \notin {32, 9}
        /\ tok.line = LineOf(src, tokOff)
        /\ tok.column = ColumnOf(src, tokOff)

\* An identifier on the second line, right after a multi-line string.
C6_Witness ==
    /\ src = <<34, 34, 34, 10, 34, 34, 34, 110>>
    /\ tok.type = "IDENT"
    /\ tok.line = 2
    /\ tok.column = 4

----------------------------------------------------------------------------
\* Parser (src/internal/parser/parser.go)
\*
\* The parser pulls its tokens from the lexer one NextToken call at a time;
\* toks holds what those calls return for src, the EOF token last (the lexer
\* returns EOF again on every later call, so the cursor stays on it).

RECURSIVE LexAllFrom(_, _)
LexAllFrom(s, st) ==
    LET r == NextToken(s, st) IN
    IF r.tok.type = "EOF" THEN <<r.tok>> ELSE <<r.tok>> \o LexAllFrom(s, r.st)

LexAll(s) == LexAllFrom(s, NewLexer)

Nil == [k |-> "nil"]

TypeAt(ts, i) == ts[Min(i, Len(ts))].type

curTokenIs(ts, i, t) == TypeAt(ts, i) = t

peekTokenIs(ts, i, t) == TypeAt(ts, i + 1) = t

\* p.nextToken(): the cursor after it.  Without comment mode a COMMENT that
\* becomes the current token is stepped over at once.
RECURSIVE nextToken(_, _, _)
nextToken(ts, i, mode) ==
    LET j == Min(i + 1, Len(ts)) IN
    IF ~mode /\ ts[j].type = "COMMENT" THEN nextToken(ts, j, mode) ELSE j

\* parser.New: two nextToken calls; the cursor is on the first token.
NewParserCur(ts, mode) == nextToken(ts, 0, mode)

PErr(ts, i, msg) ==
    [msg |-> msg, line |-> ts[Min(i, Len(ts))].line,
     column |-> ts[Min(i, Len(ts))].column]

RECURSIVE skip(_, _, _, _)
skip(ts, i, mode, types) ==
    IF TypeAt(ts, i) \in types THEN skip(ts, nextToken(ts, i, mode), mode, types)
    ELSE i

RECURSIVE newlinesLoop(_, _, _, _)
newlinesLoop(ts, i, mode, count) ==
    IF curTokenIs(ts, i, "NEWLINE")
    THEN newlinesLoop(ts, nextToken(ts, i, mode), mode, count + 1)
    ELSE [n |-> count, i |-> i]

consumeNewlines(ts, i, mode) == newlinesLoop(ts, i, mode, 0)

Comment(ts, i) == [value |-> ts[i].lit, line |-> ts[i].line, column |-> ts[i].column]

RECURSIVE commentsLoop(_, _, _, _)
commentsLoop(ts, i, mode, comments) ==
    IF curTokenIs(ts, i, "COMMENT")
    THEN commentsLoop(ts, nextToken(ts, i, mode), mode,
                      Append(comments, Comment(ts, i)))
    ELSE IF curTokenIs(ts, i, "NEWLINE") /\ peekTokenIs(ts, i, "COMMENT")
    THEN commentsLoop(ts, nextToken(ts, i, mode), mode, comments)
    ELSE [cs |-> comments, i |-> i]

consumeComments(ts, i, mode) == commentsLoop(ts, i, mode, <<>>)

\* The value of a run of digits
RECURSIVE DigitsValue(_, _, _)
DigitsValue(s, i, acc) ==
    IF i > Len(s) THEN acc ELSE DigitsValue(s, i + 1, acc * 10 + (s[i] - 48))

\* The order of two numbers written in digits, digit i on: -1, 0 or 1 as a is
\* below, equal to or above b.  A number that has run out of digits goes on
\* with zeros.
RECURSIVE CompareFrom(_, _, _)
CompareFrom(a, b, i) ==
    IF i > Len(a) /\ i > Len(b) THEN 0
    ELSE LET x == IF i <= Len(a) THEN a[i] ELSE 0
             y == IF i <= Len(b) THEN b[i] ELSE 0
         IN  IF x < y THEN 0 - 1 ELSE IF x > y THEN 1 ELSE CompareFrom(a, b, i + 1)

\* a <= b for two naturals written in decimal without leading zeros
NumberLeq(a, b) ==
    Len(a) < Len(b) \/ (Len(a) = Len(b) /\ CompareFrom(a, b, 1) <= 0)

\* The decimal text of the largest integer of the model's arithmetic, 2^31 - 1,
\* of math.MaxInt64 and of 2^63
TextMaxInt31 == <<50, 49, 52, 55, 52, 56, 51, 54, 52, 55>>
TextMaxInt64 == << 57, 50, 50, 51, 51, 55, 50, 48, 51, 54, 56, 53, 52, 55, 55, 53, 56, 48,
    55 >>
TextTwoTo63 == << 57, 50, 50, 51, 51, 55, 50, 48, 51, 54, 56, 53, 52, 55, 55, 53, 56, 48,
    56 >>

\* strconv.ParseInt(lit, 10, 64) of an INT literal (no leading zeros): the
\* value is a number when it lies within 2^31 - 1 of zero, and is kept as its
\* decimal text (big) when it lies beyond but within int64; outside int64
\* ParseInt returns a range error.
ParseInt(lit) ==
    LET neg == lit[1] = 45
        first == IF neg THEN 2 ELSE 1
        digs == SubSeq(lit, first, Len(lit))
    IN  IF NumberLeq(digs, TextMaxInt31)
        THEN [ok |-> TRUE, big |-> FALSE,
              v |-> IF neg THEN 0 - DigitsValue(lit, first, 0)
                    ELSE DigitsValue(lit, first, 0)]
        ELSE IF NumberLeq(digs, IF neg THEN TextTwoTo63 ELSE TextMaxInt64)
        THEN [ok |-> TRUE, big |-> TRUE, v |-> lit]
        ELSE [ok |-> FALSE, big |-> FALSE, v |-> 0]

\* An integer of the model kept as its decimal text
IsBig(x) == "big" \in DOMAIN x

\* A float64 is [k |-> "fin", neg, d, dp], the number 0.d * 10^dp with d its
\* decimal digits without leading or trailing zeros (none for zero), or
\* [k |-> "inf", neg], or [k |-> "nan"].  The digits of a float64 are the
\* shortest that read back as the value, those strconv's shortest conversion
\* returns, so that every float64 is one record.

\* The digits of 2^1024 - 2^970, halfway between math.MaxFloat64 and 2^1024:
\* a number of that size or more has no float64.  It is 0.d * 10^309.
HalfwayToInf64 ==
    << 1, 7, 9, 7, 6, 9, 3, 1, 3, 4, 8, 6, 2, 3, 1, 5, 8, 0, 7, 9, 3, 7, 2, 8,
    9, 7, 1, 4, 0, 5, 3, 0, 3, 4, 1, 5, 0, 7, 9, 9, 3, 4, 1, 3, 2, 7, 1, 0,
    0, 3, 7, 8, 2, 6, 9, 3, 6, 1, 7, 3, 7, 7, 8, 9, 8, 0, 4, 4, 4, 9, 6, 8,
    2, 9, 2, 7, 6, 4, 7, 5, 0, 9, 4, 6, 6, 4, 9, 0, 1, 7, 9, 7, 7, 5, 8, 7,
    2, 0, 7, 0, 9, 6, 3, 3, 0, 2, 8, 6, 4, 1, 6, 6, 9, 2, 8, 8, 7, 9, 1, 0,
    9, 4, 6, 5, 5, 5, 5, 4, 7, 8, 5, 1, 9, 4, 0, 4, 0, 2, 6, 3, 0, 6, 5, 7,
    4, 8, 8, 6, 7, 1, 5, 0, 5, 8, 2, 0, 6, 8, 1, 9, 0, 8, 9, 0, 2, 0, 0, 0,
    7, 0, 8, 3, 8, 3, 6, 7, 6, 2, 7, 3, 8, 5, 4, 8, 4, 5, 8, 1, 7, 7, 1, 1,
    5, 3, 1, 7, 6, 4, 4, 7, 5, 7, 3, 0, 2, 7, 0, 0, 6, 9, 8, 5, 5, 5, 7, 1,
    3, 6, 6, 9, 5, 9, 6, 2, 2, 8, 4, 2, 9, 1, 4, 8, 1, 9, 8, 6, 0, 8, 3, 4,
    9, 3, 6, 4, 7, 5, 2, 9, 2, 7, 1, 9, 0, 7, 4, 1, 6, 8, 4, 4, 4, 3, 6, 5,
    5, 1, 0, 7, 0, 4, 3, 4, 2, 7, 1, 1, 5, 5, 9, 6, 9, 9, 5, 0, 8, 0, 9, 3,
    0, 4, 2, 8, 8, 0, 1, 7, 7, 9, 0, 4, 1, 7, 4, 4, 9, 7, 7, 9, 2 >>

\* The first index from i on of a rune of S in s, or Len(s) + 1
RECURSIVE IndexAny(_, _, _)
IndexAny(s, S, i) ==
    IF i > Len(s) \/ s[i] \in S THEN i ELSE IndexAny(s, S, i + 1)

\* d without its leading zeros, and without its trailing zeros
RECURSIVE TrimLeft(_)
TrimLeft(d) == IF d # <<>> /\ Head(d) = 0 THEN TrimLeft(Tail(d)) ELSE d

RECURSIVE TrimRight(_)
TrimRight(d) ==
    IF d # <<>> /\ d[Len(d)] = 0 THEN TrimRight(SubSeq(d, 1, Len(d) - 1)) ELSE d

\* Arithmetic on decimals.  A natural number is the sequence of its digits
\* without leading zeros; a positive number x is [d, dp], 0.d * 10^dp with d
\* without leading or trailing zeros.

\* -1, 0 or 1 as the number a is below, equal to or above the number b
DecCmp(a, b) ==
    IF a.dp < b.dp THEN 0 - 1
    ELSE IF a.dp > b.dp THEN 1
    ELSE CompareFrom(a.d, b.d, 1)

\* The natural number s as a number
IntDec(s) == [d |-> TrimRight(s), dp |-> Len(s)]

\* Twice the natural number s: a digit is doubled and takes the carry of the
\* digit after it.
DoubleInt(s) ==
    LET b == [i \in 1..Len(s) |->
                (2 * s[i] + (IF i < Len(s) /\ s[i + 1] >= 5 THEN 1 ELSE 0)) % 10]
    IN  IF s # <<>> /\ s[1] >= 5 THEN <<1>> \o b ELSE <<>> \o b

\* The natural number s plus one, and a positive s minus one
RECURSIVE IncInt(_)
IncInt(s) ==
    IF s = <<>> THEN <<1>>
    ELSE IF s[Len(s)] < 9 THEN [s EXCEPT ![Len(s)] = @ + 1]
    ELSE IncInt(SubSeq(s, 1, Len(s) - 1)) \o <<0>>

RECURSIVE DecInt(_)
DecInt(s) ==
    IF s[Len(s)] > 0 THEN TrimLeft([s EXCEPT ![Len(s)] = @ - 1])
    ELSE DecInt(SubSeq(s, 1, Len(s) - 1)) \o <<9>>

\* Twice the number x, and half of it
DecDouble(x) ==
    LET b == DoubleInt(x.d)
    IN  [d |-> TrimRight(b), dp |-> x.dp + Len(b) - Len(x.d)]

DecHalve(x) ==
    LET n == Len(x.d)
        h == [i \in 1..(n + 1) |->
                ((IF i <= n THEN x.d[i] ELSE 0)
                   + (IF i > 1 /\ x.d[i - 1] % 2 = 1 THEN 10 ELSE 0)) \div 2]
        t == TrimRight(<<>> \o h)
    IN  IF h[1] = 0 THEN [d |-> Tail(t), dp |-> x.dp - 1]
        ELSE [d |-> t, dp |-> x.dp]

\* x * 2^k, by halves of k (the first half is worked out before the second
\* is begun)
RECURSIVE DecShift(_, _)
DecShift(x, k) ==
    IF k = 0 THEN x
    ELSE IF k = 1 THEN DecDouble(x)
    ELSE IF k = 0 - 1 THEN DecHalve(x)
    ELSE LET j == IF k > 0 THEN k \div 2 ELSE 0 - ((0 - k) \div 2)
             y == DecShift(x, j)
         IN  IF y.d # <<>> THEN DecShift(y, k - j) ELSE y

\* A binary format: the bits p of the mantissa, the least exponent emin of
\* its last bit (that of the denormals), and the numbers 2^p and 2^(p-1).
Float64Format ==
    [p |-> 53, emin |-> 0 - 1074,
     top |-> [d |-> <<9, 0, 0, 7, 1, 9, 9, 2, 5, 4, 7, 4, 0, 9, 9, 2>>, dp |-> 16],
     low |-> [d |-> <<4, 5, 0, 3, 5, 9, 9, 6, 2, 7, 3, 7, 0, 4, 9, 6>>, dp |-> 16]]

Float32Format ==
    [p |-> 24, emin |-> 0 - 149,
     top |-> [d |-> <<1, 6, 7, 7, 7, 2, 1, 6>>, dp |-> 8],
     low |-> [d |-> <<8, 3, 8, 8, 6, 0, 8>>, dp |-> 7]]

\* The exponent e of the last bit of the mantissa of x in the format F, and
\* q = x / 2^e: 2^(p-1) <= q < 2^p, or e = emin and q is below 2^(p-1).  x is
\* halved or doubled in steps of step, step / 2, ..., 1, each taken if it
\* leaves q at 2^(p-1) or above, or below 2^p with e at emin or above.
RECURSIVE Scale(_, _, _, _)
Scale(x, e, F, step) ==
    IF step = 0 THEN [q |-> x, e |-> e]
    ELSE LET h == DecShift(x, 0 - step)
             u == DecShift(x, step)
         IN  IF DecCmp(h, F.low) >= 0 THEN Scale(h, e + step, F, step \div 2)
             ELSE IF e - step >= F.emin /\ DecCmp(u, F.top) < 0
             THEN Scale(u, e - step, F, step \div 2)
             ELSE Scale(x, e, F, step \div 2)

\* The digits f after a decimal point against one half: 1 above, 0 equal,
\* -1 below (f has no trailing zeros)
CompareHalf(f) ==
    IF f = <<>> \/ f[1] < 5 THEN 0 - 1
    ELSE IF f[1] > 5 \/ Len(f) > 1 THEN 1
    ELSE 0

\* The digits of the number q before its decimal point, and those after it
IntPart(q) ==
    IF q.dp <= 0 THEN <<>>
    ELSE [i \in 1..q.dp |-> IF i <= Len(q.d) THEN q.d[i] ELSE 0]

FracPart(q) ==
    IF q.dp <= 0
    THEN [i \in 1..(Len(q.d) - q.dp) |-> IF i <= 0 - q.dp THEN 0 ELSE q.d[i + q.dp]]
    ELSE SubSeq(q.d, q.dp + 1, Len(q.d))

\* The mantissa m with the exponent e, a mantissa of 2^p as 2^(p-1) with e + 1
Normalize(m, e, F) ==
    IF m = F.top.d THEN [m |-> F.low.d, e |-> e + 1] ELSE [m |-> m, e |-> e]

\* The natural number ip, or the next one if the digits after it compare to
\* one half as half says: above, or equal with ip odd
RoundHalfEven(ip, half) ==
    IF half > 0 \/ (half = 0 /\ ip # <<>> /\ ip[Len(ip)] % 2 = 1)
    THEN IncInt(ip) ELSE ip

RoundScaled(s, F) ==
    Normalize(RoundHalfEven(IntPart(s.q), CompareHalf(FracPart(s.q))), s.e, F)

\* The number of the format F nearest to x, of two equally near the one with
\* the even mantissa: the mantissa m, a natural number, and the exponent e of
\* its last bit; the number is m * 2^e.  The steps of Scale are 1024, 512,
\* ..., 1, enough for 2^2047.
RoundBinary(x, F) == RoundScaled(Scale(x, 0, F, 1024), F)

\* The shortest decimal between lo and hi (the two included if incl) that is
\* nearest to v, lo < v < hi: v cut to n digits or the next number of n
\* digits above it, for the least n for which one of them is in the interval
\* (strconv's roundShortest).
RECURSIVE ShortestFrom(_, _, _, _, _)
ShortestFrom(v, lo, hi, incl, n) ==
    LET cut    == SubSeq(v.d, 1, n)
        down   == [d |-> TrimRight(cut), dp |-> v.dp]
        upI    == IncInt(cut)
        up     == [d |-> TrimRight(upI), dp |-> v.dp + Len(upI) - n]
        cd     == DecCmp(down, lo)
        cu     == DecCmp(up, hi)
        okdown == n > 0 /\ (cd > 0 \/ (incl /\ cd = 0))
        okup   == cu < 0 \/ (incl /\ cu = 0)
        half   == CompareHalf(SubSeq(v.d, n + 1, Len(v.d)))
    IN  IF n >= Len(v.d) THEN v
        ELSE IF okdown /\ okup
        THEN IF half > 0 \/ (half = 0 /\ v.d[n] % 2 = 1) THEN up ELSE down
        ELSE IF okdown THEN down
        ELSE IF okup THEN up
        ELSE ShortestFrom(v, lo, hi, incl, n + 1)

\* The digits of the float64 m * 2^e (m not zero, 2^52 <= m unless e is the
\* least exponent): the shortest decimal that is nearer to it than to any
\* other float64; the numbers halfway to its neighbours count if m is even.
\* The float64 below a power of two is half as far away as the one above.
ShortestDecimal(m, e, F) ==
    LET m2 == DoubleInt(m)
        hi == DecShift(IntDec(IncInt(m2)), e - 1)
        lo == IF m = F.low.d /\ e > F.emin
              THEN DecShift(IntDec(DecInt(DoubleInt(m2))), e - 2)
              ELSE DecShift(IntDec(DecInt(m2)), e - 1)
    IN  ShortestFrom(DecShift(IntDec(m), e), lo, hi, m[Len(m)] % 2 = 0, 0)

\* The number m * 2^e
Exact(r) == DecShift(IntDec(r.m), r.e)

\* The digits of the float64 r, none if it is zero
DigitsOf(r) ==
    IF r.m = <<>> THEN [d |-> <<>>, dp |-> 0]
    ELSE ShortestDecimal(r.m, r.e, Float64Format)

\* The float64 nearest to the positive number x, which is below 2^1024 - 2^970:
\* its digits, none if it is zero.
Float64Of(x) == DigitsOf(RoundBinary(x, Float64Format))

\* The float32 r as a float64: every float32 is a float64.
Widen(r) == IF r.m = <<>> THEN [d |-> <<>>, dp |-> 0] ELSE Float64Of(Exact(r))

\* float32(x) of a float64 x that is positive and at most math.MaxFloat32, as
\* a float64: x itself is rounded to the nearest number of 24 bits.
Float32Of(x) ==
    Widen(RoundBinary(Exact(RoundBinary(x, Float64Format)), Float32Format))

\* strconv reads the digits of an exponent while its value is below this and
\* passes over the digits that follow.
ExpCap == 10000

\* The exponent strconv reads from the digits s, from the i-th on, with e read
RECURSIVE ReadExp(_, _, _)
ReadExp(s, i, e) ==
    IF i > Len(s) THEN e
    ELSE ReadExp(s, i + 1, IF e < ExpCap THEN e * 10 + (s[i] - 48) ELSE e)

\* The digits of the float64 nearest to 0.sig * 10^dp.  A number of at most
\* 15 digits within the normal float64s is the shortest decimal of its
\* float64 (no two such numbers have the same float64), so its digits are
\* the float64's.
Nearest(sig, dp) ==
    IF Len(sig) <= 15 /\ dp >= 0 - 306 /\ dp <= 308
    THEN [d |-> sig, dp |-> dp]
    ELSE Float64Of([d |-> sig, dp |-> dp])

Finite(neg, f) == [k |-> "fin", neg |-> neg, d |-> f.d, dp |-> f.dp]

\* strconv.ParseFloat(lit, 64) of a FLOAT literal: sign, digits, an optional
\* fraction, an optional exponent.  A number too large is a range error (the
\* value returned with it is an infinity); the others give the float64
\* nearest to the number written, zero for one below half the least float64.
ParseFloat(lit) ==
    LET neg    == lit[1] = 45
        first  == IF neg THEN 2 ELSE 1
        ePos   == IndexAny(lit, {101, 69}, first)
        dot    == IndexAny(lit, {46}, first)
        intEnd == IF dot < ePos THEN dot - 1 ELSE ePos - 1
        ip     == SubSeq(lit, first, intEnd)
        fp     == IF dot < ePos THEN SubSeq(lit, dot + 1, ePos - 1) ELSE <<>>
        all    == [i \in 1..(Len(ip) + Len(fp)) |->
                      (IF i <= Len(ip) THEN ip[i] ELSE fp[i - Len(ip)]) - 48]
        lead   == Len(all) - Len(TrimLeft(all))
        sig    == TrimRight(TrimLeft(all))
        eNeg   == ePos < Len(lit) /\ lit[ePos + 1] = 45
        eFirst == IF ePos < Len(lit) /\ lit[ePos + 1] \in {43, 45}
                  THEN ePos + 2 ELSE ePos + 1
        eAbs   == ReadExp(lit, eFirst, 0)
        dp     == Len(ip) - lead + (IF eNeg THEN 0 - eAbs ELSE eAbs)
    IN  IF sig = <<>> \/ dp < 0 - 323
        THEN [ok |-> TRUE, f |-> [k |-> "fin", neg |-> neg, d |-> <<>>, dp |-> 0]]
        ELSE IF dp > 309 \/ (dp = 309 /\ CompareFrom(sig, HalfwayToInf64, 1) >= 0)
        THEN [ok |-> FALSE, f |-> [k |-> "inf", neg |-> neg]]
        ELSE [ok |-> TRUE, f |-> Finite(neg, Nearest(sig, dp))]

\* The prefix functions of the tokens that are one-token expressions.  Each
\* returns the expression (Nil on error), the errors it appends and the cursor
\* it leaves.
PRes(e, errs, i) == [expr |-> e, errs |-> errs, i |-> i]

parseIdentifier(ts, i, mode) ==
    LET lit == ts[i].lit IN
    IF Len(lit) > 0 /\ (isDigit(lit[1]) \/ lit[1] = 45)
    THEN PRes(Nil, <<PErr(ts, i, "invalid number format")>>, nextToken(ts, i, mode))
    ELSE PRes([k |-> "ident", v |-> lit], <<>>, nextToken(ts, i, mode))

parseIntegerLiteral(ts, i, mode) ==
    LET n == ParseInt(ts[i].lit) IN
    IF ~n.ok
    THEN PRes(Nil, <<PErr(ts, i, "could not parse as integer")>>,
              nextToken(ts, i, mode))
    ELSE PRes(IF n.big THEN [k |-> "int", v |-> n.v, lit |-> ts[i].lit, big |-> TRUE]
              ELSE [k |-> "int", v |-> n.v, lit |-> ts[i].lit],
              <<>>, nextToken(ts, i, mode))

\* The node keeps the literal; its Value is ParseFloat of the literal.
parseFloatLiteral(ts, i, mode) ==
    IF ~ParseFloat(ts[i].lit).ok
    THEN PRes(Nil, <<PErr(ts, i, "could not parse as float")>>,
              nextToken(ts, i, mode))
    ELSE PRes([k |-> "float", lit |-> ts[i].lit], <<>>, nextToken(ts, i, mode))

parseStringLiteral(ts, i, mode) ==
    PRes([k |-> "string", v |-> ts[i].lit], <<>>, nextToken(ts, i, mode))

parseBooleanLiteral(ts, i, mode) ==
    PRes([k |-> "bool", v |-> curTokenIs(ts, i, "TRUE")], <<>>,
         nextToken(ts, i, mode))

parseNullLiteral(ts, i, mode) ==
    PRes([k |-> "null"], <<>>, nextToken(ts, i, mode))

parseIllegal(ts, i, mode) ==
    PRes(Nil, <<PErr(ts, i, "illegal token encountered")>>, nextToken(ts, i, mode))

LeafTypes == {"IDENT", "INT", "FLOAT", "STRING", "TRUE", "FALSE", "NULL", "ILLEGAL"}

\* p.prefixParseFns, for the one-token expressions.
prefixLeaf(ts, i, mode) ==
    CASE TypeAt(ts, i) = "IDENT"   -> parseIdentifier(ts, i, mode)
      [] TypeAt(ts, i) = "INT"     -> parseIntegerLiteral(ts, i, mode)
      [] TypeAt(ts, i) = "FLOAT"   -> parseFloatLiteral(ts, i, mode)
      [] TypeAt(ts, i) = "STRING"  -> parseStringLiteral(ts, i, mode)
      [] TypeAt(ts, i) \in {"TRUE", "FALSE"} -> parseBooleanLiteral(ts, i, mode)
      [] TypeAt(ts, i) = "NULL"    -> parseNullLiteral(ts, i, mode)
      [] TypeAt(ts, i) = "ILLEGAL" -> parseIllegal(ts, i, mode)

parseObjectKey(ts, i, mode) ==
    IF TypeAt(ts, i) = "STRING"
    THEN PRes([k |-> "string", v |-> ts[i].lit], <<>>, nextToken(ts, i, mode))
    ELSE IF TypeAt(ts, i) \in {"IDENT", "INT"}
    THEN PRes([k |-> "ident", v |-> ts[i].lit], <<>>, nextToken(ts, i, mode))
    ELSE PRes(Nil, <<PErr(ts, i, "invalid token for object key")>>,
              nextToken(ts, i, mode))

\* The head comments of a pair: comment blocks, each followed by newlines.
RECURSIVE headCommentsLoop(_, _, _, _)
headCommentsLoop(ts, i, mode, head) ==
    IF curTokenIs(ts, i, "COMMENT")
    THEN LET c == consumeComments(ts, i, mode) IN
         headCommentsLoop(ts, skip(ts, c.i, mode, {"NEWLINE"}), mode, head \o c.cs)
    ELSE [cs |-> head, i |-> i]

\* A returned sub-routine call, for the record of the last step.
Ret(fn, entry, exit, isNil) ==
    [fn |-> fn, entry |-> entry, exit |-> exit, nil |-> isNil]

Top == stack[Len(stack)]

Pop == SubSeq(stack, 1, Len(stack) - 1)

ReplaceTop(f) == [stack EXCEPT ![Len(stack)] = f]

MaxPChunks == 4
MaxErrors == 6

\* The pieces the parser's inputs are made of:  {  }  [  ]  ,  :  LF  "a "
\* "1 "  "#c"  "a:1 "  and a double quote.
ParChunks ==
    { <<123>>, <<125>>, <<91>>, <<93>>, <<44>>, <<58>>, <<10>>, <<97, 32>>,
      <<49, 32>>, <<35, 99>>, <<97, 58, 49, 32>>, <<34>> }

ParInputs == { Flatten(cs) : cs \in SeqsUpTo(ParChunks, MaxPChunks) }

InitPar ==
    /\ src \in ParInputs
    /\ LexIdle(src)
    /\ EncIdle
    /\ DecIdle
    /\ FldIdle
    /\ pmode \in BOOLEAN
    /\ toks = LexAll(src)
    /\ cur = NewParserCur(toks, pmode)
    /\ perrs = <<>>
    /\ stack = <<>>
    /\ ret = Nil
    /\ pc = "parse"
    /\ doc = [head |-> <<>>, stmts |-> <<>>]
    /\ rets = <<>>
    /\ RtIdle
    /\ FnIdle

\* Parse, up to its call of parseStatement.
ParseStart ==
    /\ pc = "parse"
    /\ LET i1 == skip(toks, cur, pmode, {"NEWLINE"})
           hc == IF pmode THEN consumeComments(toks, i1, pmode)
                 ELSE [cs |-> <<>>, i |-> i1]
           i2 == IF pmode THEN skip(toks, hc.i, pmode, {"NEWLINE"}) ELSE i1
       IN  /\ doc' = [head |-> hc.cs, stmts |-> <<>>]
           /\ cur' = i2
           /\ IF curTokenIs(toks, i2, "EOF")
              THEN pc' = "done" /\ stack' = stack
              ELSE pc' = "call" /\ stack' = <<[fn |-> "stmt", entry |-> i2]>>
    /\ rets' = <<>>
    /\ UNCHANGED <<notParVars, toks, pmode, perrs, ret>>

\* parseExpression on a token with no prefix function: the error is recorded
\* and nil returned; the cursor stays.
ParseExpressionNoPrefix ==
    /\ pc = "call"
    /\ TypeAt(toks, cur) \notin LeafTypes \cup {"[", "{"}
    /\ Len(perrs) < MaxErrors
    /\ perrs' = Append(perrs, PErr(toks, cur, "no prefix parse function"))
    /\ ret' = Nil
    /\ pc' = "return"
    /\ rets' = <<Ret("expression", cur, cur, TRUE)>>
    /\ UNCHANGED <<notParVars, toks, cur, pmode, stack, doc>>

\* parseExpression on a one-token expression.
ParseExpressionLeaf ==
    /\ pc = "call"
    /\ TypeAt(toks, cur) \in LeafTypes
    /\ LET r == prefixLeaf(toks, cur, pmode) IN
       /\ perrs' = perrs \o r.errs
       /\ ret' = r.expr
       /\ cur' = r.i
       /\ rets' = <<Ret("expression", cur, r.i, r.expr = Nil)>>
    /\ pc' = "return"
    /\ UNCHANGED <<notParVars, toks, pmode, stack, doc>>

\* parseArrayLiteral up to the first element: '[' consumed, newlines skipped.
\* An empty array is finished here.
ParseArrayOpen ==
    /\ pc = "call"
    /\ curTokenIs(toks, cur, "[")
    /\ LET i2 == skip(toks, nextToken(toks, cur, pmode), pmode, {"NEWLINE"}) IN
       IF curTokenIs(toks, i2, "]")
       THEN /\ cur' = nextToken(toks, i2, pmode)
            /\ ret' = [k |-> "array", elems |-> <<>>]
            /\ pc' = "return"
            /\ rets' = <<Ret("array", cur, cur', FALSE),
                         Ret("expression", cur, cur', FALSE)>>
            /\ stack' = stack
       ELSE /\ cur' = i2
            /\ ret' = ret
            /\ pc' = "call"
            /\ rets' = <<>>
            /\ stack' = Append(stack, [fn |-> "array", entry |-> cur, list |-> <<>>])
    /\ UNCHANGED <<notParVars, toks, pmode, perrs, doc>>

\* parseExpressionList after an element's parseExpression returned: the
\* element is appended, separators are skipped, and the loop either goes on to
\* the next element or ends, and parseArrayLiteral then closes the array.
ParseArrayElement ==
    /\ pc = "return"
    /\ stack # <<>> /\ Top.fn = "array"
    /\ LET list == Append(Top.list, ret)
           i1 == skip(toks, cur, pmode, {"NEWLINE", ","})
       IN  IF curTokenIs(toks, i1, "]") \/ curTokenIs(toks, i1, "EOF")
           THEN /\ stack' = Pop
                /\ pc' = "return"
                /\ IF ~curTokenIs(toks, i1, "]")
                   THEN /\ perrs' = Append(perrs,
                                        PErr(toks, i1, "unterminated array literal"))
                        /\ ret' = Nil
                        /\ cur' = i1
                   ELSE /\ perrs' = perrs
                        /\ ret' = [k |-> "array", elems |-> list]
                        /\ cur' = nextToken(toks, i1, pmode)
                /\ rets' = <<Ret("array", Top.entry, cur', ret' = Nil),
                             Ret("expression", Top.entry, cur', ret' = Nil)>>
           ELSE /\ stack' = ReplaceTop([Top EXCEPT !.list = list])
                /\ pc' = "call"
                /\ cur' = i1
                /\ UNCHANGED <<perrs, ret>>
                /\ rets' = <<>>
    /\ UNCHANGED <<notParVars, toks, pmode, doc>>

\* parseObjectLiteral: '{' consumed.
ParseObjectOpen ==
    /\ pc = "call"
    /\ curTokenIs(toks, cur, "{")
    /\ cur' = nextToken(toks, cur, pmode)
    /\ stack' = Append(stack, [fn |-> "object", entry |-> cur, pairs |-> <<>>,
                               keys |-> {}, pend |-> Nil])
    /\ pc' = "objloop"
    /\ rets' = <<>>
    /\ UNCHANGED <<notParVars, toks, pmode, perrs, ret, doc>>

\* The end of parseObjectLiteral with the cursor at i.
ObjectClose(i) ==
    /\ stack' = Pop
    /\ pc' = "return"
    /\ IF ~curTokenIs(toks, i, "}")
       THEN /\ perrs' = Append(perrs, PErr(toks, i, "unterminated object literal"))
            /\ ret' = Nil
            /\ cur' = i
       ELSE /\ perrs' = perrs
            /\ ret' = [k |-> "object", pairs |-> Top.pairs]
            /\ cur' = nextToken(toks, i, pmode)
    /\ rets' = <<Ret("object", Top.entry, cur', ret' = Nil),
                 Ret("expression", Top.entry, cur', ret' = Nil)>>

\* parseKeyValuePair returned nil with the cursor at i: parseObjectLiteral
\* steps over one token and loops.
ObjectNilPair(i, errs, rs) ==
    /\ perrs' = perrs \o errs
    /\ cur' = nextToken(toks, i, pmode)
    /\ pc' = "objloop"
    /\ rets' = rs
    /\ UNCHANGED <<stack, ret>>

\* One turn of parseObjectLiteral's loop, up to the parseExpression call of
\* the pair's value (or to the end of the turn, if the pair has no value).
ParseObjectLoop ==
    /\ pc = "objloop"
    /\ IF curTokenIs(toks, cur, "}") \/ curTokenIs(toks, cur, "EOF")
       THEN ObjectClose(cur)
       ELSE
       LET n1 == consumeNewlines(toks, cur, pmode)
           c  == IF curTokenIs(toks, n1.i, ",")
                 THEN LET n2 == consumeNewlines(toks, nextToken(toks, n1.i, pmode),
                                                pmode)
                      IN  [n |-> n1.n + n2.n, i |-> n2.i]
                 ELSE n1
       IN  IF curTokenIs(toks, c.i, "}") THEN ObjectClose(c.i)
           ELSE
           LET h == IF pmode THEN headCommentsLoop(toks, c.i, pmode, <<>>)
                    ELSE [cs |-> <<>>, i |-> c.i]
           IN  IF curTokenIs(toks, h.i, "}") THEN ObjectClose(h.i)
               ELSE
               LET key == parseObjectKey(toks, h.i, pmode) IN
               IF key.expr = Nil
               THEN ObjectNilPair(key.i, key.errs,
                                  <<Ret("key", h.i, key.i, TRUE),
                                    Ret("pair", h.i, key.i, TRUE)>>)
               ELSE IF ~curTokenIs(toks, key.i, ":")
               THEN ObjectNilPair(key.i,
                                  <<PErr(toks, key.i, "expected ':' after key")>>,
                                  <<Ret("key", h.i, key.i, FALSE),
                                    Ret("pair", h.i, key.i, TRUE)>>)
               ELSE /\ cur' = skip(toks, nextToken(toks, key.i, pmode), pmode,
                                   {"NEWLINE"})
                    /\ stack' = ReplaceTop([Top EXCEPT !.pend =
                                   [key |-> key.expr, head |-> h.cs, nl |-> c.n,
                                    entry |-> h.i]])
                    /\ pc' = "call"
                    /\ rets' = <<Ret("key", h.i, key.i, FALSE)>>
                    /\ UNCHANGED <<perrs, ret>>
    /\ UNCHANGED <<notParVars, toks, pmode, doc>>

\* parseKeyValuePair after the value's parseExpression returned, and the rest
\* of the loop's turn: the duplicate-key check, the pair appended, the foot
\* comments.
ParsePairValue ==
    /\ pc = "return"
    /\ stack # <<>> /\ Top.fn = "object"
    /\ IF ret = Nil
       THEN ObjectNilPair(cur, <<>>, <<Ret("pair", Top.pend.entry, cur, TRUE)>>)
       ELSE
       LET lc == IF pmode /\ curTokenIs(toks, cur, "COMMENT")
                 THEN [cs |-> <<Comment(toks, cur)>>,
                       i |-> nextToken(toks, cur, pmode)]
                 ELSE IF pmode /\ curTokenIs(toks, cur, ",")
                               /\ peekTokenIs(toks, cur, "COMMENT")
                 THEN LET j == nextToken(toks, cur, pmode) IN
                      [cs |-> <<Comment(toks, j)>>, i |-> nextToken(toks, j, pmode)]
                 ELSE [cs |-> <<>>, i |-> cur]
           keyStr == Top.pend.key.v
           i2 == IF pmode /\ curTokenIs(toks, lc.i, ",")
                          /\ peekTokenIs(toks, lc.i, "NEWLINE")
                 THEN nextToken(toks, lc.i, pmode) ELSE lc.i
           fc == IF pmode /\ curTokenIs(toks, i2, "NEWLINE")
                          /\ peekTokenIs(toks, i2, "COMMENT")
                 THEN consumeComments(toks, nextToken(toks, i2, pmode), pmode)
                 ELSE [cs |-> <<>>, i |-> i2]
           pair == [key |-> Top.pend.key, value |-> ret, head |-> Top.pend.head,
                    nl |-> Top.pend.nl, line |-> lc.cs, foot |-> fc.cs]
       IN  /\ perrs' = IF keyStr \in Top.keys
                       THEN Append(perrs, PErr(toks, lc.i, "duplicate key in object"))
                       ELSE perrs
           /\ stack' = ReplaceTop([Top EXCEPT !.pairs = Append(@, pair),
                                              !.keys = @ \cup {keyStr},
                                              !.pend = Nil])
           /\ cur' = fc.i
           /\ pc' = "objloop"
           /\ rets' = <<Ret("pair", Top.pend.entry, lc.i, FALSE)>>
           /\ ret' = ret
    /\ UNCHANGED <<notParVars, toks, pmode, doc>>

\* Parse after parseStatement returned.
ParseFinish ==
    /\ pc = "return"
    /\ stack # <<>> /\ Top.fn = "stmt"
    /\ LET i1 == skip(toks, cur, pmode, {"NEWLINE"}) IN
       /\ cur' = i1
       /\ perrs' = IF ~curTokenIs(toks, i1, "EOF")
                   THEN Append(perrs, PErr(toks, i1, "unexpected token after main value"))
                   ELSE perrs
    /\ doc' = [doc EXCEPT !.stmts = <<[expr |-> ret]>>]
    /\ stack' = <<>>
    /\ pc' = "done"
    /\ rets' = <<>>
    /\ UNCHANGED <<notParVars, toks, pmode, ret>>

NextPar ==
    \/ ParseStart
    \/ ParseExpressionNoPrefix
    \/ ParseExpressionLeaf
    \/ ParseArrayOpen
    \/ ParseArrayElement
    \/ ParseObjectOpen
    \/ ParseObjectLoop
    \/ ParsePairValue
    \/ ParseFinish

SpecPar == InitPar /\ [][NextPar]_vars

\* C5: every parse sub-routine that returns has moved the cursor past its
\* construct: past the first token at least (unless that token is EOF, which
\* the cursor never leaves), and, when it returns an array or an object, to
\* the token that follows the closing bracket.
C5_CursorAfterConstruct ==
    \A n \in 1..Len(rets) :
        LET r == rets[n] IN
        /\ TypeAt(toks, r.entry) # "EOF" => r.exit > r.entry
        /\ (~r.nil /\ r.fn \in {"array", "object"}) =>
              \E j \in (r.entry + 1)..r.exit :
                  /\ toks[j].type = (IF r.fn = "array" THEN "]" ELSE "}")
                  /\ nextToken(toks, j, pmode) = r.exit

\* parseExpressionList goes on to a further element: the step of
\* ParseArrayElement that ends in the next parseExpression call.
ArrayLoopTurn ==
    /\ pc = "return"
    /\ stack # <<>>
    /\ Top.fn = "array"
    /\ rets # <<>>
    /\ pc' = "call"

\* C26: every turn of the loop of parseExpressionList consumes a token: the
\* parseExpression call of the next element starts after the token the call of
\* the last element started at.
C26_ArrayLoopConsumes == [][ArrayLoopTurn => cur' > rets[1].entry]_vars

\* The comments attached below an expression, in the order of the nodes
RECURSIVE CommentsOf(_)
CommentsOfPairs(pairs) ==
    Flatten([i \in DOMAIN pairs |->
                pairs[i].head \o pairs[i].line \o pairs[i].foot
                    \o CommentsOf(pairs[i].value)])

CommentsOf(e) ==
    CASE e.k = "object" -> CommentsOfPairs(e.pairs)
      [] e.k = "array"  -> Flatten([i \in DOMAIN e.elems |-> CommentsOf(e.elems[i])])
      [] OTHER          -> <<>>

\* The comments attached to the document
DocComments(d) ==
    d.head \o Flatten([i \in DOMAIN d.stmts |-> CommentsOf(d.stmts[i].expr)])

\* The places of the COMMENT tokens of the source
CommentTokens(ts) ==
    { <<ts[i].line, ts[i].column>> : i \in { j \in DOMAIN ts : ts[j].type = "COMMENT" } }

\* C22: in comment mode, when the source parses without error, every comment
\* of the source is attached to the document exactly once.
C22_NoCommentDropped ==
    (pc = "done" /\ pmode /\ perrs = <<>>) =>
        LET cs == DocComments(doc) IN
        /\ { <<cs[i].line, cs[i].column>> : i \in DOMAIN cs } = CommentTokens(toks)
        /\ Len(cs) = Cardinality(CommentTokens(toks))

\* C13: an object node that parseObjectLiteral returns holds no key twice.
C13_UniqueKeys ==
    (pc \in {"return", "done"} /\ ret.k = "object") =>
        \A i, j \in DOMAIN ret.pairs :
            i # j => ret.pairs[i].key.v # ret.pairs[j].key.v

----------------------------------------------------------------------------
\* Encoder: the walk over the caller's value (src/unnamed/part_018)
\*
\* The value is a graph of memory locations 1..MaxNodes, location 1 the value
\* handed to Encode.  A location holds a leaf (a string, number or bool, or a
\* value with a Marshaler; bad if marshalValue returns an error for it: a
\* uint64 above MaxInt64, a non-nil chan or func, a Marshaler that fails), a
\* pointer (to the location kids[1], nil if kids is empty), a slice (of the
\* consecutive locations kids), a map (its values kids, in the order of the
\* sorted keys; strkey if its key type is string) or a struct (its exported,
\* encoded fields kids, kids[1] at offset 0; an array, held by value and
\* walked without bookkeeping like a struct, is a struct here).  An
\* interface value is the value it holds (marshalInterface).
\*
\* The address of a location is its number, except that a struct and its
\* first field are at the same address; a map's internal table has an
\* address of its own.  A slice without elements is nil, or has a data
\* pointer that is no location's address (base = 0: the two encode alike, but
\* for null against []), or has the address of the location base as its data
\* pointer (s[:0] of a slice that starts there).

MaxNodes == 3
MaxKids == 2

Nodes == 1..MaxNodes

KidLists == UNION { [1..n -> Nodes] : n \in 0..MaxKids }

NodeVals ==
    { [kind |-> "leaf", kids |-> <<>>, bad |-> b] : b \in BOOLEAN }
    \cup { [kind |-> "ptr", kids |-> ks] : ks \in { k \in KidLists : Len(k) <= 1 } }
    \cup { [kind |-> "slice", kids |-> ks, base |-> 0] : ks \in KidLists }
    \cup { [kind |-> "slice", kids |-> <<>>, base |-> b] : b \in Nodes }
    \cup { [kind |-> "map", kids |-> ks, strkey |-> s, nil |-> FALSE] :
             ks \in KidLists, s \in BOOLEAN }
    \cup { [kind |-> "map", kids |-> <<>>, strkey |-> s, nil |-> TRUE] :
             s \in BOOLEAN }
    \cup { [kind |-> "struct", kids |-> ks] : ks \in KidLists }

\* The locations reached from the locations in S along edges of the kinds in K.
RECURSIVE ReachFrom(_, _, _)
ReachFrom(h, S, K) ==
    LET T == S \cup UNION { { h[n].kids[i] : i \in 1..Len(h[n].kids) } :
                            n \in { m \in S : h[m].kind \in K } }
    IN  IF T = S THEN S ELSE ReachFrom(h, T, K)

Kids(h, n) == { h[n].kids[i] : i \in 1..Len(h[n].kids) }

AllKinds == {"leaf", "ptr", "slice", "map", "struct"}

\* n lies on a cycle of edges of the kinds in K.
OnCycle(h, n, K) ==
    h[n].kind \in K /\ n \in ReachFrom(h, Kids(h, n), K)

\* The value's reference graph has a cycle (every location is reachable from
\* location 1, see Heaps).
HasCycle(h) == \E n \in Nodes : OnCycle(h, n, AllKinds)

\* The values Go can build: a struct holds its fields by value, so no struct
\* contains itself through struct fields alone.  Values that differ only in
\* unreachable locations are the same value.
Heaps ==
    { h \in [Nodes -> NodeVals] :
        /\ ReachFrom(h, {1}, AllKinds) = Nodes
        /\ \A n \in Nodes : ~OnCycle(h, n, {"struct"}) }

\* The address of the location n: a struct begins with its first field.
RECURSIVE Addr(_, _)
Addr(h, n) ==
    IF h[n].kind = "struct" /\ h[n].kids # <<>>
    THEN Addr(h, h[n].kids[1])
    ELSE n

\* v.Pointer(): a pointer's is the address of its target, a slice's the
\* address of its first element (its data pointer, if it has no element), a
\* map's the address of its table.  It is not called on other kinds (0 here,
\* which is no location's address).
Pointer(h, n) ==
    CASE h[n].kind = "ptr" /\ h[n].kids # <<>>   -> Addr(h, h[n].kids[1])
      [] h[n].kind = "slice" /\ h[n].kids # <<>> -> Addr(h, h[n].kids[1])
      [] h[n].kind = "slice" /\ h[n].base # 0    -> Addr(h, h[n].base)
      [] h[n].kind = "map"                       -> 0 - n
      [] OTHER                                   -> 0

\* v.IsNil() of a pointer, slice or map (a slice with base = 0 is nil or has
\* a data pointer e.seen never holds: no difference to the walk).
IsNil(h, n) ==
    CASE h[n].kind = "ptr"   -> h[n].kids = <<>>
      [] h[n].kind = "slice" -> h[n].kids = <<>> /\ h[n].base = 0
      [] h[n].kind = "map"   -> h[n].nil
      [] OTHER               -> FALSE

\* The kinds whose marshal function looks its address up in e.seen
\* (marshalPointer, marshalSlice on a slice, marshalMap).
Tracked(h, n) == h[n].kind \in {"ptr", "slice", "map"} /\ ~IsNil(h, n)

\* The depth at which the Go runtime gives up with a stack overflow, scaled
\* to the model: deeper than any walk that stops at a reference already on
\* the path.
MaxStack == 2 * MaxNodes + 2

inSeen_never(ptr, s) == FALSE
\* _, ok := e.seen[ptr]
inSeen(ptr, s) == ptr \in s

deleteSeen_keep(s, ptr) == s
\* delete(e.seen, ptr)
deleteSeen(s, ptr) == s \ {ptr}

\* The error a marshal call is returning, and what Encode returns for it.
Returning == {"returning cycle", "returning unsupported", "returning key type"}

Returned(st) ==
    CASE st = "returning cycle"       -> "cycle"
      [] st = "returning unsupported" -> "unsupported"
      [] st = "returning key type"    -> "key type"

EncodeErrors == { Returned(st) : st \in Returning }

InitEnc ==
    /\ heap \in Heaps
    /\ estack = <<>>
    /\ seen = {}
    /\ ecall = 0
    /\ estatus = "init"
    /\ LexIdle(<<>>)
    /\ ParIdle
    /\ DecIdle
    /\ FldIdle
    /\ RtIdle
    /\ FnIdle

\* Encode: the encodeState is made and marshalValue called on the value.
EncodeStart ==
    /\ estatus = "init"
    /\ estatus' = "running"
    /\ ecall' = 1
    /\ UNCHANGED <<heap, estack, seen, notEncVars>>

\* marshalValue on a leaf it can encode, on a nil pointer, slice or map, on
\* a slice or a string-keyed map without elements whose address is not in
\* e.seen (the address is added, and removed by the deferred call), or on a
\* struct without encoded fields: a node is returned at once.
MarshalLeaf ==
    /\ estatus = "running" /\ ecall # 0
    /\ heap[ecall].kids = <<>>
    /\ heap[ecall].kind = "leaf" => ~heap[ecall].bad
    /\ Tracked(heap, ecall) =>
         /\ ~inSeen(Pointer(heap, ecall), seen)
         /\ heap[ecall].kind = "map" => heap[ecall].strkey
    /\ seen' = IF Tracked(heap, ecall)
               THEN deleteSeen(seen \cup {Pointer(heap, ecall)},
                               Pointer(heap, ecall))
               ELSE seen
    /\ ecall' = 0
    /\ UNCHANGED <<heap, estack, estatus, notEncVars>>

\* marshalValue on a value it has no encoding for: marshalUint on a uint64
\* above MaxInt64, the default case on a non-nil chan or func, marshalCustom
\* when MarshalMAML fails.
MarshalUnsupported ==
    /\ estatus = "running" /\ ecall # 0
    /\ heap[ecall].kind = "leaf" /\ heap[ecall].bad
    /\ estatus' = "returning unsupported"
    /\ ecall' = 0
    /\ UNCHANGED <<heap, estack, seen, notEncVars>>

\* marshalPointer, marshalSlice or marshalMap on a reference whose address is
\* in e.seen: the cycle error is returned to the caller.
MarshalCycle ==
    /\ estatus = "running" /\ ecall # 0
    /\ Tracked(heap, ecall)
    /\ inSeen(Pointer(heap, ecall), seen)
    /\ estatus' = "returning cycle"
    /\ ecall' = 0
    /\ UNCHANGED <<heap, estack, seen, notEncVars>>

\* marshalMap on a map whose key type is not string: the address was looked
\* up and added, the error is returned before any value is visited, and the
\* deferred call removes the address.
MarshalKeyType ==
    /\ estatus = "running" /\ ecall # 0
    /\ heap[ecall].kind = "map" /\ ~IsNil(heap, ecall)
    /\ ~inSeen(Pointer(heap, ecall), seen)
    /\ ~heap[ecall].strkey
    /\ seen' = deleteSeen(seen \cup {Pointer(heap, ecall)}, Pointer(heap, ecall))
    /\ estatus' = "returning key type"
    /\ ecall' = 0
    /\ UNCHANGED <<heap, estack, notEncVars>>

\* A child's marshalValue returned an error: the caller removes its address
\* from e.seen (marshalPointer after the call, marshalSlice and marshalMap
\* in their deferred call) and returns the error.
MarshalError ==
    /\ estatus \in Returning
    /\ estack # <<>>
    /\ LET f == estack[Len(estack)] IN
       /\ estack' = SubSeq(estack, 1, Len(estack) - 1)
       /\ seen' = IF heap[f.node].kind = "struct" THEN seen
                  ELSE deleteSeen(seen, Pointer(heap, f.node))
    /\ UNCHANGED <<heap, ecall, estatus, notEncVars>>

\* Encode after marshalValue returned an error: Encode returns it.
EncodeError ==
    /\ estatus \in Returning
    /\ estack = <<>>
    /\ estatus' = Returned(estatus)
    /\ UNCHANGED <<heap, estack, seen, ecall, notEncVars>>

\* marshalPointer, marshalSlice, marshalMap or marshalStruct going into the
\* value: a reference adds its address to e.seen; marshalValue is called on
\* the first child.  The goroutine's stack is finite.
MarshalDescend ==
    /\ estatus = "running" /\ ecall # 0
    /\ heap[ecall].kids # <<>>
    /\ heap[ecall].kind = "struct" \/ ~inSeen(Pointer(heap, ecall), seen)
    /\ heap[ecall].kind = "map" => heap[ecall].strkey
    /\ IF Len(estack) >= MaxStack
       THEN /\ estatus' = "overflow"
            /\ ecall' = 0
            /\ UNCHANGED <<estack, seen>>
       ELSE /\ estack' = Append(estack, [node |-> ecall, idx |-> 1])
            /\ seen' = IF heap[ecall].kind = "struct" THEN seen
                       ELSE seen \cup {Pointer(heap, ecall)}
            /\ ecall' = heap[ecall].kids[1]
            /\ estatus' = estatus
    /\ UNCHANGED <<heap, notEncVars>>

\* A child's marshalValue returned a node: the caller goes on to its next
\* child, or, after the last, removes its address from e.seen and returns.
MarshalReturn ==
    /\ estatus = "running" /\ ecall = 0
    /\ estack # <<>>
    /\ LET f == estack[Len(estack)] IN
       IF f.idx < Len(heap[f.node].kids)
       THEN /\ estack' = [estack EXCEPT ![Len(estack)].idx = f.idx + 1]
            /\ ecall' = heap[f.node].kids[f.idx + 1]
            /\ seen' = seen
       ELSE /\ estack' = SubSeq(estack, 1, Len(estack) - 1)
            /\ ecall' = 0
            /\ seen' = IF heap[f.node].kind = "struct" THEN seen
                       ELSE deleteSeen(seen, Pointer(heap, f.node))
    /\ UNCHANGED <<heap, estatus, notEncVars>>

\* Encode after marshalValue returned a node: the node is formatted.
EncodeFinish ==
    /\ estatus = "running" /\ ecall = 0
    /\ estack = <<>>
    /\ estatus' = "ok"
    /\ UNCHANGED <<heap, estack, seen, ecall, notEncVars>>

NextEnc ==
    \/ EncodeStart
    \/ MarshalLeaf
    \/ MarshalUnsupported
    \/ MarshalCycle
    \/ MarshalKeyType
    \/ MarshalError
    \/ MarshalDescend
    \/ MarshalReturn
    \/ EncodeError
    \/ EncodeFinish

\* Encode runs to its return: nothing else takes the goroutine's steps.
SpecEnc == InitEnc /\ [][NextEnc]_vars /\ WF_vars(NextEnc)

\* Every value the walk can reach has an encoding: no leaf marshalValue
\* rejects, no map with keys of another type than string.
Encodable(h) ==
    \A n \in Nodes :
        /\ h[n].kind = "leaf" => ~h[n].bad
        /\ h[n].kind = "map" /\ ~h[n].nil => h[n].strkey

\* C3 as the specification states it: encoding a value whose reference graph
\* has a cycle ends with the cycle error: it neither succeeds nor overflows
\* the stack, and the walk never holds more calls than twice the number of
\* locations, whatever the stack could hold.
C3_CycleError ==
    /\ [](HasCycle(heap) =>
            /\ estatus \notin {"ok", "overflow"}
            /\ Len(estack) <= 2 * Cardinality(DOMAIN heap))
    /\ [](estatus = "init" /\ HasCycle(heap) => <>(estatus = "cycle"))

\* C3, amended: encoding a value whose reference graph has a cycle ends with
\* an error and never succeeds, never overflows the stack and never holds
\* more calls than twice the number of locations; the error is the cycle
\* error when every value in the graph has an encoding, and may be the error
\* of a value without one (an unsupported value, a map whose keys are not
\* strings) that the walk meets before it meets a reference again.
C3_CycleEndsInError ==
    /\ [](HasCycle(heap) =>
            /\ estatus \notin {"ok", "overflow"}
            /\ Len(estack) <= 2 * Cardinality(DOMAIN heap))
    /\ [](estatus = "init" /\ HasCycle(heap) => <>(estatus \in EncodeErrors))
    /\ [](estatus = "init" /\ HasCycle(heap) /\ Encodable(heap)
            => <>(estatus = "cycle"))

\* A cycle through a map that holds itself only behind a pointer, found.
C3_Witness ==
    /\ estatus = "cycle"
    /\ HasCycle(heap)
    /\ heap[1].kind = "map"
    /\ 1 \notin Kids(heap, 1)
    /\ \E n \in Nodes : heap[n].kind = "ptr" /\ heap[n].kids = <<1>>
                        /\ OnCycle(heap, n, AllKinds)

\* The addresses of the pointers, slices and maps whose marshal call is in
\* progress
PathAddresses ==
    { Pointer(heap, estack[i].node) :
        i \in { j \in DOMAIN estack : heap[estack[j].node].kind # "struct" } }

\* C30: at every point of an encode e.seen holds the addresses of the
\* references on the path of calls in progress and no other, whether the calls
\* are going down, returning a node or returning an error; it is empty when
\* Encode has returned.
C30_SeenIsPath ==
    /\ seen = PathAddresses
    /\ estatus \in {"ok"} \cup EncodeErrors => seen = {}

\* The error on its way up: found two calls deep under a pointer to a slice,
\* the slice's call has returned and removed its address, the pointer's call
\* has not.
C30_Witness ==
    /\ estatus = "returning cycle"
    /\ heap[1].kind = "ptr" /\ heap[1].kids = <<2>>
    /\ heap[2].kind = "slice" /\ heap[2].kids # <<>> /\ heap[2].kids[1] = 3
    /\ Len(estack) = 1
    /\ seen = {2}

\* C14: the encoder returns the cycle error only for a value that has a
\* cycle.
C14_NoFalseCycle == estatus = "cycle" => HasCycle(heap)

----------------------------------------------------------------------------
\* Decoder: the mapping of an expression onto a Go value
\* (src/unnamed/part_008)
\*
\* A Go type is a record [k, ...]: string, bool, float, int (of some width),
\* uint, any (the empty interface), slice, map with string keys, pointer.  A Go
\* value is a record [k, ...] too; NilV is the nil of pointers, slices, maps
\* and interfaces.  No type of the model has an unmarshaler of its own.

defaultMaxDepth == 1000

TString == [k |-> "string"]
TBool == [k |-> "bool"]
TFloat == [k |-> "float", bits |-> 64]
TFloat32 == [k |-> "float", bits |-> 32]
TInt(bits) == [k |-> "int", bits |-> bits]
TUint == [k |-> "uint"]
TAny == [k |-> "any"]
TSlice(T) == [k |-> "slice", elem |-> T]
TMap(T) == [k |-> "map", elem |-> T]
\* A map type whose keys are not strings
TMapOf(K, T) == [k |-> "map", key |-> K, elem |-> T]
TPtr(T) == [k |-> "ptr", elem |-> T]

NilV == [k |-> "nil"]

\* mapType.Key().Kind() == reflect.String
StringKeys(T) == "key" \notin DOMAIN T \/ T.key.k = "string"

FloatZero == [k |-> "fin", neg |-> FALSE, d |-> <<>>, dp |-> 0]

\* reflect.Zero
Zero(T) ==
    CASE T.k = "string" -> [k |-> "string", v |-> <<>>]
      [] T.k = "bool"   -> [k |-> "bool", v |-> FALSE]
      [] T.k = "float"  -> [k |-> "float", f |-> FloatZero]
      [] T.k = "int"    -> [k |-> "int", v |-> 0]
      [] T.k = "uint"   -> [k |-> "uint", v |-> 0]
      [] OTHER          -> NilV

\* The result of a mapValue call: the error ("" if none), the value stored,
\* and (ghost) the deepest nesting of mapValue entries the call came to, itself
\* counted.
DRes(err, v, deep) == [err |-> err, v |-> v, deep |-> deep]

\* OverflowInt with its upper limit one too high
OverflowInt_offByOne(v, bits) ==
    bits < 32 /\ (v < 0 - 2^(bits - 1) \/ v > 2^(bits - 1))

\* reflect.Value.OverflowInt: the value is not the same after it is cut to
\* the bits of the type.  Values of the model are below 2^31 in size and fit
\* 32 and 64 bits.
OverflowInt(v, bits) ==
    bits < 32 /\ (v < 0 - 2^(bits - 1) \/ v > 2^(bits - 1) - 1)

\* OverflowInt of an integer kept as its text, which lies beyond 2^31 - 1 from
\* zero and within int64: it fits 64 bits, and -2^31 fits 32.
OverflowBig(text, bits) ==
    bits < 64 /\ ~(bits = 32 /\ text = <<45, 50, 49, 52, 55, 52, 56, 51, 54, 52, 56>>)

\* The float64 math.MaxFloat32, (2^24 - 1) * 2^104
MaxFloat32 ==
    [d |-> <<3, 4, 0, 2, 8, 2, 3, 4, 6, 6, 3, 8, 5, 2, 8, 8, 6>>, dp |-> 39]

\* reflect.Value.OverflowFloat: a float64 never overflows; a float32 does when
\* the float64 is finite and above math.MaxFloat32 in size.
OverflowFloat(f, bits) ==
    /\ bits = 32
    /\ f.k = "fin"
    /\ f.d # <<>>
    /\ DecCmp(f, MaxFloat32) > 0

\* reflect.Value.SetFloat: a float32 is set to float32(x), a float64 to x.
SetFloat(f, bits) ==
    IF bits = 32 /\ f.k = "fin" /\ f.d # <<>>
    THEN Finite(f.neg, Float32Of(f))
    ELSE f

mapString(s, T) ==
    IF T.k # "string" THEN DRes("cannot unmarshal string", Zero(T), 1)
    ELSE DRes("", [k |-> "string", v |-> s.v], 1)

mapIdentifier(i, T) ==
    IF T.k # "string" THEN DRes("cannot unmarshal identifier", Zero(T), 1)
    ELSE DRes("", [k |-> "string", v |-> i.v], 1)

\* mapInt on a target that holds rv: the error with the value and the type it
\* names, and what the target holds on return.
mapIntInto(i, T, rv) ==
    IF T.k # "int"
    THEN [err |-> "cannot unmarshal integer", arg |-> 0, type |-> T, v |-> rv]
    ELSE IF IsBig(i)
    THEN IF OverflowBig(i.v, T.bits)
         THEN [err |-> "integer value overflows", arg |-> i.v, type |-> T, v |-> rv]
         ELSE [err |-> "", arg |-> 0, type |-> T,
               v |-> [k |-> "int", v |-> i.v, big |-> TRUE]]
    ELSE IF OverflowInt(i.v, T.bits)
    THEN [err |-> "integer value overflows", arg |-> i.v, type |-> T, v |-> rv]
    ELSE [err |-> "", arg |-> 0, type |-> T, v |-> [k |-> "int", v |-> i.v]]

\* mapInt on a new target
mapInt(i, T) ==
    LET r == mapIntInto(i, T, Zero(T)) IN DRes(r.err, r.v, 1)

\* f.Value is ParseFloat of the literal.
\* mapFloat on f.Value: the overflow check, then rv.SetFloat
setFloatValue(x, T) ==
    IF OverflowFloat(x, T.bits)
    THEN DRes("float value overflows", Zero(T), 1)
    ELSE DRes("", [k |-> "float", f |-> SetFloat(x, T.bits)], 1)

mapFloat(f, T) ==
    IF T.k # "float" THEN DRes("cannot unmarshal float", Zero(T), 1)
    ELSE setFloatValue(ParseFloat(f.lit).f, T)

mapBool(b, T) ==
    IF T.k # "bool" THEN DRes("cannot unmarshal boolean", Zero(T), 1)
    ELSE DRes("", [k |-> "bool", v |-> b.v], 1)

\* The concrete type mapInterface decodes an expression into.
concreteType(expr) ==
    CASE expr.k \in {"ident", "string"} -> TString
      [] expr.k = "int"    -> TInt(64)
      [] expr.k = "float"  -> TFloat
      [] expr.k = "bool"   -> TBool
      [] expr.k = "array"  -> TSlice(TAny)
      [] expr.k = "object" -> TMap(TAny)

\* if ds.depth <= 0, after ds.depth--
depthExhausted(depth) == depth <= 0

RECURSIVE mapValue(_, _, _)
RECURSIVE mapKind(_, _, _)
RECURSIVE mapSliceFrom(_, _, _, _, _, _)
RECURSIVE mapMapFrom(_, _, _, _, _, _)

\* The loop of mapSlice from element i on: s the elements stored so far, deep
\* the deepest nesting met so far.
mapSliceFrom(elems, i, T, depth, s, deep) ==
    IF i > Len(elems) THEN DRes("", [k |-> "slice", elems |-> s], 1 + deep)
    ELSE LET r == mapValue(elems[i], T.elem, depth) IN
         IF r.err # "" THEN DRes(r.err, Zero(T), 1 + Max(deep, r.deep))
         ELSE mapSliceFrom(elems, i + 1, T, depth, Append(s, r.v), Max(deep, r.deep))

mapSlice(a, T, depth) == mapSliceFrom(a.elems, 1, T, depth, <<>>, 0)

\* resolveMapKey
resolveMapKey(keyExpr) ==
    IF keyExpr.k \in {"ident", "string"} THEN [err |-> "", key |-> keyExpr.v]
    ELSE [err |-> "invalid key type in object literal", key |-> <<>>]

\* The loop of mapMap from pair i on: m the map so far, a function from the
\* keys set to their values.  The target holds the map from the start, so an
\* error leaves it with the pairs set before.
mapMapFrom(pairs, i, T, depth, m, deep) ==
    IF i > Len(pairs) THEN DRes("", [k |-> "map", m |-> m], 1 + deep)
    ELSE LET key == resolveMapKey(pairs[i].key) IN
         IF key.err # "" THEN DRes(key.err, [k |-> "map", m |-> m], 1 + deep)
         ELSE LET r == mapValue(pairs[i].value, T.elem, depth) IN
              IF r.err # ""
              THEN DRes(r.err, [k |-> "map", m |-> m], 1 + Max(deep, r.deep))
              ELSE mapMapFrom(pairs, i + 1, T, depth,
                              [x \in (DOMAIN m) \cup {key.key} |->
                                  IF x = key.key THEN r.v ELSE m[x]],
                              Max(deep, r.deep))

\* mapMap on a nil target
mapMap(obj, T, depth) ==
    IF ~StringKeys(T)
    THEN DRes("cannot unmarshal object into map with non-string key type", Zero(T), 1)
    ELSE mapMapFrom(obj.pairs, 1, T, depth, <<>>, 0)

mapInterface(expr, depth) ==
    IF expr.k = "null" THEN DRes("", NilV, 1)
    ELSE IF expr.k \notin {"ident", "string", "int", "float", "bool", "array", "object"}
    THEN DRes("cannot determine concrete type for interface{}", NilV, 1)
    ELSE LET r == mapValue(expr, concreteType(expr), depth) IN
         IF r.err # "" THEN DRes(r.err, NilV, 1 + r.deep)
         ELSE DRes("", [k |-> "any", t |-> concreteType(expr), v |-> r.v], 1 + r.deep)

\* mapValue from its loop over the pointers on: a nil pointer is given a new
\* target, and the target decoded.
mapKind(expr, T, depth) ==
    IF T.k = "ptr"
    THEN LET r == mapKind(expr, T.elem, depth) IN
         DRes(r.err, [k |-> "ptr", v |-> r.v], r.deep)
    ELSE IF T.k = "any" THEN mapInterface(expr, depth)
    ELSE CASE expr.k = "null"   -> DRes("", Zero(T), 1)
           [] expr.k = "ident"  -> mapIdentifier(expr, T)
           [] expr.k = "string" -> mapString(expr, T)
           [] expr.k = "int"    -> mapInt(expr, T)
           [] expr.k = "float"  -> mapFloat(expr, T)
           [] expr.k = "bool"   -> mapBool(expr, T)
           [] expr.k = "array"  ->
                IF T.k = "slice" THEN mapSlice(expr, T, depth)
                ELSE DRes("cannot unmarshal array", Zero(T), 1)
           [] expr.k = "object" ->
                IF T.k = "map" THEN mapMap(expr, T, depth)
                ELSE DRes("cannot unmarshal object", Zero(T), 1)
           [] OTHER -> DRes("mapping for AST node type not yet implemented", Zero(T), 1)

\* depth is ds.depth when mapValue is entered.
mapValue(expr, T, depth) ==
    IF depthExhausted(depth - 1)
    THEN DRes("reached max recursion depth", Zero(T), 1)
    ELSE IF expr.k = "null" /\ T.k \in {"any", "ptr", "map", "slice"}
    THEN DRes("", NilV, 1)
    ELSE mapKind(expr, T, depth - 1)

\* decodeDocument for a document with the statement expr and a pointer to a
\* T: the depth limit is the option's, or the default.
decodeDocument(expr, T, maxDepth) ==
    mapValue(expr, T, IF maxDepth = 0 THEN defaultMaxDepth ELSE maxDepth)

MaxExprNest == 3
MaxTypeNest == 2
MaxDepthOpt == 4

EmptyPair(key, value) ==
    [key |-> key, value |-> value, head |-> <<>>, nl |-> 0, line |-> <<>>,
     foot |-> <<>>]

DecLeaves ==
    { [k |-> "null"], [k |-> "int", v |-> 1, lit |-> <<49>>],
      [k |-> "string", v |-> <<97>>] }

\* The expressions nested at most n deep: leaves, arrays of one element or of
\* a leaf and an element, objects of one pair.
RECURSIVE DecExprs(_)
DecExprs(n) ==
    IF n = 0 THEN DecLeaves
    ELSE LET E == DecExprs(n - 1) IN
         DecLeaves
         \cup { [k |-> "array", elems |-> <<e>>] : e \in E }
         \cup { [k |-> "array", elems |-> <<l, e>>] : l \in DecLeaves, e \in E }
         \cup { [k |-> "object",
                 pairs |-> <<EmptyPair([k |-> "ident", v |-> <<107>>], e)>>] :
                e \in E }

RECURSIVE DecTypes(_)
DecTypes(n) ==
    IF n = 0 THEN {TAny, TInt(64), TString}
    ELSE LET S == DecTypes(n - 1) IN
         {TAny, TInt(64), TString}
         \cup { TSlice(T) : T \in S } \cup { TMap(T) : T \in S }
         \cup { TPtr(T) : T \in S }

InitDec ==
    /\ dexpr \in DecExprs(MaxExprNest)
    /\ dtype \in DecTypes(MaxTypeNest)
    /\ dmax \in 0..MaxDepthOpt
    /\ dout = [done |-> FALSE]
    /\ LexIdle(<<>>)
    /\ ParIdle
    /\ EncIdle
    /\ FldIdle
    /\ RtIdle
    /\ FnIdle

\* Decoder.decodeDocument
DecodeDocument ==
    /\ ~dout.done
    /\ LET r == decodeDocument(dexpr, dtype, dmax) IN
       dout' = [done |-> TRUE, err |-> r.err, v |-> r.v]
    /\ UNCHANGED <<dexpr, dtype, dmax, notDecVars>>

NextDec == DecodeDocument

SpecDec == InitDec /\ [][NextDec]_vars

\* The nesting of mapValue entries that decoding the expression into the type
\* comes to when no limit stops it.
NeededDepth(expr, T) == mapValue(expr, T, defaultMaxDepth).deep

\* C4: with the limit n, a decode fails with "reached max recursion depth"
\* exactly when the nesting of mapValue entries it needs exceeds n.
C4_DepthErrorIffExceeds ==
    (dout.done /\ dmax > 0) =>
        ((dout.err = "reached max recursion depth")
            <=> (NeededDepth(dexpr, dtype) > dmax))

----------------------------------------------------------------------------
\* Field resolver: cachedFields (src/unnamed/part_008)
\*
\* A struct type is the sequence of its fields; a field has its Go name, its
\* maml tag ("" if it has none) and, if it is an embedded struct (anon), the
\* fields of that struct.  Names are sequences of runes.  A resolved field is
\* its index path, as in the source.

\* unicode.CaseRanges for the mapping to lower case, above ASCII (Unicode
\* 15.0.0): <<lo, hi, stride, delta>> maps the runes lo, lo + stride, ... up to
\* hi to the rune delta further on.
CaseRanges ==
    << <<192, 214, 1, 32>>, <<216, 222, 1, 32>>, <<256, 302, 2, 1>>,
       <<304, 304, 1, -199>>, <<306, 310, 2, 1>>, <<313, 327, 2, 1>>,
       <<330, 374, 2, 1>>, <<376, 376, 1, -121>>, <<377, 381, 2, 1>>,
       <<385, 385, 1, 210>>, <<386, 388, 2, 1>>, <<390, 390, 1, 206>>,
       <<391, 391, 1, 1>>, <<393, 394, 1, 205>>, <<395, 395, 1, 1>>,
       <<398, 398, 1, 79>>, <<399, 399, 1, 202>>, <<400, 400, 1, 203>>,
       <<401, 401, 1, 1>>, <<403, 403, 1, 205>>, <<404, 404, 1, 207>>,
       <<406, 406, 1, 211>>, <<407, 407, 1, 209>>, <<408, 408, 1, 1>>,
       <<412, 412, 1, 211>>, <<413, 413, 1, 213>>, <<415, 415, 1, 214>>,
       <<416, 420, 2, 1>>, <<422, 422, 1, 218>>, <<423, 423, 1, 1>>,
       <<425, 425, 1, 218>>, <<428, 428, 1, 1>>, <<430, 430, 1, 218>>,
       <<431, 431, 1, 1>>, <<433, 434, 1, 217>>, <<435, 437, 2, 1>>,
       <<439, 439, 1, 219>>, <<440, 440, 1, 1>>, <<444, 444, 1, 1>>,
       <<452, 452, 1, 2>>, <<453, 453, 1, 1>>, <<455, 455, 1, 2>>,
       <<456, 456, 1, 1>>, <<458, 458, 1, 2>>, <<459, 475, 2, 1>>,
       <<478, 494, 2, 1>>, <<497, 497, 1, 2>>, <<498, 500, 2, 1>>,
       <<502, 502, 1, -97>>, <<503, 503, 1, -56>>, <<504, 542, 2, 1>>,
       <<544, 544, 1, -130>>, <<546, 562, 2, 1>>, <<570, 570, 1, 10795>>,
       <<571, 571, 1, 1>>, <<573, 573, 1, -163>>, <<574, 574, 1, 10792>>,
       <<577, 577, 1, 1>>, <<579, 579, 1, -195>>, <<580, 580, 1, 69>>,
       <<581, 581, 1, 71>>, <<582, 590, 2, 1>>, <<880, 882, 2, 1>>,
       <<886, 886, 1, 1>>, <<895, 895, 1, 116>>, <<902, 902, 1, 38>>,
       <<904, 906, 1, 37>>, <<908, 908, 1, 64>>, <<910, 911, 1, 63>>,
       <<913, 929, 1, 32>>, <<931, 939, 1, 32>>, <<975, 975, 1, 8>>,
       <<984, 1006, 2, 1>>, <<1012, 1012, 1, -60>>, <<1015, 1015, 1, 1>>,
       <<1017, 1017, 1, -7>>, <<1018, 1018, 1, 1>>, <<1021, 1023, 1, -130>>,
       <<1024, 1039, 1, 80>>, <<1040, 1071, 1, 32>>, <<1120, 1152, 2, 1>>,
       <<1162, 1214, 2, 1>>, <<1216, 1216, 1, 15>>, <<1217, 1229, 2, 1>>,
       <<1232, 1326, 2, 1>>, <<1329, 1366, 1, 48>>, <<4256, 4293, 1, 7264>>,
       <<4295, 4295, 1, 7264>>, <<4301, 4301, 1, 7264>>,
       <<5024, 5103, 1, 38864>>, <<5104, 5109, 1, 8>>,
       <<7312, 7354, 1, -3008>>, <<7357, 7359, 1, -3008>>,
       <<7680, 7828, 2, 1>>, <<7838, 7838, 1, -7615>>, <<7840, 7934, 2, 1>>,
       <<7944, 7951, 1, -8>>, <<7960, 7965, 1, -8>>, <<7976, 7983, 1, -8>>,
       <<7992, 7999, 1, -8>>, <<8008, 8013, 1, -8>>, <<8025, 8031, 2, -8>>,
       <<8040, 8047, 1, -8>>, <<8072, 8079, 1, -8>>, <<8088, 8095, 1, -8>>,
       <<8104, 8111, 1, -8>>, <<8120, 8121, 1, -8>>, <<8122, 8123, 1, -74>>,
       <<8124, 8124, 1, -9>>, <<8136, 8139, 1, -86>>, <<8140, 8140, 1, -9>>,
       <<8152, 8153, 1, -8>>, <<8154, 8155, 1, -100>>, <<8168, 8169, 1, -8>>,
       <<8170, 8171, 1, -112>>, <<8172, 8172, 1, -7>>,
       <<8184, 8185, 1, -128>>, <<8186, 8187, 1, -126>>,
       <<8188, 8188, 1, -9>>, <<8486, 8486, 1, -7517>>,
       <<8490, 8490, 1, -8383>>, <<8491, 8491, 1, -8262>>,
       <<8498, 8498, 1, 28>>, <<8544, 8559, 1, 16>>, <<8579, 8579, 1, 1>>,
       <<9398, 9423, 1, 26>>, <<11264, 11311, 1, 48>>,
       <<11360, 11360, 1, 1>>, <<11362, 11362, 1, -10743>>,
       <<11363, 11363, 1, -3814>>, <<11364, 11364, 1, -10727>>,
       <<11367, 11371, 2, 1>>, <<11373, 11373, 1, -10780>>,
       <<11374, 11374, 1, -10749>>, <<11375, 11375, 1, -10783>>,
       <<11376, 11376, 1, -10782>>, <<11378, 11378, 1, 1>>,
       <<11381, 11381, 1, 1>>, <<11390, 11391, 1, -10815>>,
       <<11392, 11490, 2, 1>>, <<11499, 11501, 2, 1>>,
       <<11506, 11506, 1, 1>>, <<42560, 42604, 2, 1>>,
       <<42624, 42650, 2, 1>>, <<42786, 42798, 2, 1>>,
       <<42802, 42862, 2, 1>>, <<42873, 42875, 2, 1>>,
       <<42877, 42877, 1, -35332>>, <<42878, 42886, 2, 1>>,
       <<42891, 42891, 1, 1>>, <<42893, 42893, 1, -42280>>,
       <<42896, 42898, 2, 1>>, <<42902, 42920, 2, 1>>,
       <<42922, 42922, 1, -42308>>, <<42923, 42923, 1, -42319>>,
       <<42924, 42924, 1, -42315>>, <<42925, 42925, 1, -42305>>,
       <<42926, 42926, 1, -42308>>, <<42928, 42928, 1, -42258>>,
       <<42929, 42929, 1, -42282>>, <<42930, 42930, 1, -42261>>,
       <<42931, 42931, 1, 928>>, <<42932, 42946, 2, 1>>,
       <<42948, 42948, 1, -48>>, <<42949, 42949, 1, -42307>>,
       <<42950, 42950, 1, -35384>>, <<42951, 42953, 2, 1>>,
       <<42960, 42960, 1, 1>>, <<42966, 42968, 2, 1>>,
       <<42997, 42997, 1, 1>>, <<65313, 65338, 1, 32>>,
       <<66560, 66599, 1, 40>>, <<66736, 66771, 1, 40>>,
       <<66928, 66938, 1, 39>>, <<66940, 66954, 1, 39>>,
       <<66956, 66962, 1, 39>>, <<66964, 66965, 1, 39>>,
       <<68736, 68786, 1, 64>>, <<71840, 71871, 1, 32>>,
       <<93760, 93791, 1, 32>>, <<125184, 125217, 1, 34>> >>

\* The rune r is one of lo, lo + stride, ... up to hi
InStride(r, t) == t[1] <= r /\ r <= t[2] /\ (r - t[1]) % t[3] = 0

\* What the table T adds to the rune r
CaseDelta(r, T) ==
    IF \E i \in DOMAIN T : InStride(r, T[i])
    THEN T[CHOOSE i \in DOMAIN T : InStride(r, T[i])][4]
    ELSE 0

\* unicode.ToLower
ToLowerRune(r) ==
    IF r < 128 THEN (IF r >= 65 /\ r <= 90 THEN r + 32 ELSE r)
    ELSE r + CaseDelta(r, CaseRanges)

\* strings.ToLower: every rune is mapped by unicode.ToLower.
ToLower(s) == [i \in DOMAIN s |-> ToLowerRune(s[i])]

\* unicode.Upper, the upper-case letters (category Lu) above ASCII:
\* <<lo, hi, stride>> holds the runes lo, lo + stride, ... up to hi.
UpperRanges ==
    << <<192, 214, 1>>, <<216, 222, 1>>, <<256, 310, 2>>, <<313, 327, 2>>,
       <<330, 376, 2>>, <<377, 381, 2>>, <<385, 386, 1>>, <<388, 390, 2>>,
       <<391, 393, 2>>, <<394, 395, 1>>, <<398, 401, 1>>, <<403, 404, 1>>,
       <<406, 408, 1>>, <<412, 413, 1>>, <<415, 416, 1>>, <<418, 422, 2>>,
       <<423, 425, 2>>, <<428, 430, 2>>, <<431, 433, 2>>, <<434, 435, 1>>,
       <<437, 439, 2>>, <<440, 440, 1>>, <<444, 444, 1>>, <<452, 452, 1>>,
       <<455, 455, 1>>, <<458, 458, 1>>, <<461, 475, 2>>, <<478, 494, 2>>,
       <<497, 497, 1>>, <<500, 502, 2>>, <<503, 504, 1>>, <<506, 562, 2>>,
       <<570, 571, 1>>, <<573, 574, 1>>, <<577, 579, 2>>, <<580, 582, 1>>,
       <<584, 590, 2>>, <<880, 882, 2>>, <<886, 886, 1>>, <<895, 895, 1>>,
       <<902, 904, 2>>, <<905, 906, 1>>, <<908, 910, 2>>, <<911, 913, 2>>,
       <<914, 929, 1>>, <<931, 939, 1>>, <<975, 975, 1>>, <<978, 980, 1>>,
       <<984, 1006, 2>>, <<1012, 1012, 1>>, <<1015, 1017, 2>>,
       <<1018, 1018, 1>>, <<1021, 1071, 1>>, <<1120, 1152, 2>>,
       <<1162, 1216, 2>>, <<1217, 1229, 2>>, <<1232, 1326, 2>>,
       <<1329, 1366, 1>>, <<4256, 4293, 1>>, <<4295, 4295, 1>>,
       <<4301, 4301, 1>>, <<5024, 5109, 1>>, <<7312, 7354, 1>>,
       <<7357, 7359, 1>>, <<7680, 7828, 2>>, <<7838, 7934, 2>>,
       <<7944, 7951, 1>>, <<7960, 7965, 1>>, <<7976, 7983, 1>>,
       <<7992, 7999, 1>>, <<8008, 8013, 1>>, <<8025, 8031, 2>>,
       <<8040, 8047, 1>>, <<8120, 8123, 1>>, <<8136, 8139, 1>>,
       <<8152, 8155, 1>>, <<8168, 8172, 1>>, <<8184, 8187, 1>>,
       <<8450, 8450, 1>>, <<8455, 8455, 1>>, <<8459, 8461, 1>>,
       <<8464, 8466, 1>>, <<8469, 8469, 1>>, <<8473, 8477, 1>>,
       <<8484, 8490, 2>>, <<8491, 8493, 1>>, <<8496, 8499, 1>>,
       <<8510, 8511, 1>>, <<8517, 8517, 1>>, <<8579, 8579, 1>>,
       <<11264, 11311, 1>>, <<11360, 11362, 2>>, <<11363, 11364, 1>>,
       <<11367, 11373, 2>>, <<11374, 11376, 1>>, <<11378, 11378, 1>>,
       <<11381, 11381, 1>>, <<11390, 11392, 1>>, <<11394, 11490, 2>>,
       <<11499, 11501, 2>>, <<11506, 11506, 1>>, <<42560, 42604, 2>>,
       <<42624, 42650, 2>>, <<42786, 42798, 2>>, <<42802, 42862, 2>>,
       <<42873, 42877, 2>>, <<42878, 42886, 2>>, <<42891, 42893, 2>>,
       <<42896, 42898, 2>>, <<42902, 42922, 2>>, <<42923, 42926, 1>>,
       <<42928, 42932, 1>>, <<42934, 42948, 2>>, <<42949, 42951, 1>>,
       <<42953, 42953, 1>>, <<42960, 42960, 1>>, <<42966, 42968, 2>>,
       <<42997, 42997, 1>>, <<65313, 65338, 1>>, <<66560, 66599, 1>>,
       <<66736, 66771, 1>>, <<66928, 66938, 1>>, <<66940, 66954, 1>>,
       <<66956, 66962, 1>>, <<66964, 66965, 1>>, <<68736, 68786, 1>>,
       <<71840, 71871, 1>>, <<93760, 93791, 1>>, <<119808, 119833, 1>>,
       <<119860, 119885, 1>>, <<119912, 119937, 1>>, <<119964, 119966, 2>>,
       <<119967, 119967, 1>>, <<119970, 119970, 1>>, <<119973, 119974, 1>>,
       <<119977, 119980, 1>>, <<119982, 119989, 1>>, <<120016, 120041, 1>>,
       <<120068, 120069, 1>>, <<120071, 120074, 1>>, <<120077, 120084, 1>>,
       <<120086, 120092, 1>>, <<120120, 120121, 1>>, <<120123, 120126, 1>>,
       <<120128, 120132, 1>>, <<120134, 120134, 1>>, <<120138, 120144, 1>>,
       <<120172, 120197, 1>>, <<120224, 120249, 1>>, <<120276, 120301, 1>>,
       <<120328, 120353, 1>>, <<120380, 120405, 1>>, <<120432, 120457, 1>>,
       <<120488, 120512, 1>>, <<120546, 120570, 1>>, <<120604, 120628, 1>>,
       <<120662, 120686, 1>>, <<120720, 120744, 1>>, <<120778, 120778, 1>>,
       <<125184, 125217, 1>> >>

InStrides(r, T) == \E i \in DOMAIN T : InStride(r, T[i])

\* unicode.IsUpper
IsUpper(r) ==
    IF r < 128 THEN r >= 65 /\ r <= 90 ELSE InStrides(r, UpperRanges)

\* reflect.StructField.IsExported: the name starts with an upper-case letter.
IsExported(name) == name # <<>> /\ IsUpper(name[1])

\* strings.Split(tag, ",")[0]
RECURSIVE BeforeComma(_)
BeforeComma(s) ==
    IF s = <<>> \/ Head(s) = 44 THEN <<>> ELSE <<Head(s)>> \o BeforeComma(Tail(s))

\* A fieldEntry; tagged (ghost) tells that the name is the tag's.
FieldEntry(idx, name, depth, tagged) ==
    [f |-> idx, name |-> name, depth |-> depth, tagged |-> tagged]

\* walkAndCollect from field i (1-based here, 0-based in the index path) of
\* currentType on: the entries it appends, in order.
RECURSIVE walkFrom(_, _, _, _)
walkFrom(currentType, i, currentIdx, currentDepth) ==
    IF i > Len(currentType) THEN <<>>
    ELSE
    LET sf == currentType[i]
        fieldIdx == Append(currentIdx, i - 1)
        tagName == BeforeComma(sf.tag)
        here ==
            \* sf.Anonymous, and a struct once a pointer is dereferenced
            IF sf.anon THEN walkFrom(sf.fields, 1, fieldIdx, currentDepth + 1)
            ELSE IF ~IsExported(sf.name) THEN <<>>
            ELSE IF sf.tag = <<45>> THEN <<>>
            ELSE (IF tagName # <<>>
                  THEN <<FieldEntry(fieldIdx, tagName, currentDepth, TRUE)>>
                  ELSE <<>>)
                 \o <<FieldEntry(fieldIdx, sf.name, currentDepth, FALSE)>>
    IN  here \o walkFrom(currentType, i + 1, currentIdx, currentDepth)

walkAndCollect(T) == walkFrom(T, 1, <<>>, 0)

shallower_orEqual(entry, existing) == entry.depth <= existing.depth
\* else if entry.depth < existing.depth
shallower(entry, existing) == entry.depth < existing.depth

MapSet(m, key, val) ==
    [x \in (DOMAIN m) \cup {key} |-> IF x = key THEN val ELSE m[x]]

\* The loop that fills precedenceMap, from entry i on.
RECURSIVE precedenceFrom(_, _, _)
precedenceFrom(entries, i, m) ==
    IF i > Len(entries) THEN m
    ELSE LET entry == entries[i] IN
         IF entry.name \notin DOMAIN m
         THEN precedenceFrom(entries, i + 1, MapSet(m, entry.name, entry))
         ELSE IF shallower(entry, m[entry.name])
         THEN precedenceFrom(entries, i + 1, MapSet(m, entry.name, entry))
         ELSE precedenceFrom(entries, i + 1, m)

Reverse(s) == [i \in 1..Len(s) |-> s[Len(s) + 1 - i]]

precedenceMap_lastDeclared(T) == precedenceFrom(Reverse(walkAndCollect(T)), 1, <<>>)
\* precedenceMap after the loop over collectedEntries
precedenceMap(T) == precedenceFrom(walkAndCollect(T), 1, <<>>)

setName_ifAbsent(m, name, f) == IF name \in DOMAIN m THEN m ELSE MapSet(m, name, f)
\* finalFields[name] = entry.f
setName(m, name, f) == MapSet(m, name, f)

\* The loop that fills finalFields, visiting precedenceMap's names in the
\* order given, from the i-th on.
RECURSIVE finalFrom(_, _, _, _)
finalFrom(prec, order, i, m) ==
    IF i > Len(order) THEN m
    ELSE LET name == order[i]
             m1 == setName(m, name, prec[name].f)
             lowerName == ToLower(name)
             m2 == IF lowerName \notin DOMAIN m1
                   THEN MapSet(m1, lowerName, prec[name].f) ELSE m1
         IN  finalFrom(prec, order, i + 1, m2)

finalFields(prec, order) == finalFrom(prec, order, 1, <<>>)

\* The orders in which a range over a Go map with the keys S can visit them.
RangeOrders(S) ==
    { o \in [1..Cardinality(S) -> S] : \A i, j \in DOMAIN o : i # j => o[i] # o[j] }

\* findField
findField(fields, keyStr) ==
    IF keyStr \in DOMAIN fields THEN [ok |-> TRUE, f |-> fields[keyStr]]
    ELSE IF ToLower(keyStr) \in DOMAIN fields
    THEN [ok |-> TRUE, f |-> fields[ToLower(keyStr)]]
    ELSE [ok |-> FALSE]

MaxFields == 2
MaxEmbed == 1

\* A field: its name and tag; anon, an embedded struct or pointer to a struct,
\* with the fields of the struct; ptr, an embedded pointer.
Plain(name, tag) ==
    [name |-> name, tag |-> tag, anon |-> FALSE, fields |-> <<>>, ptr |-> FALSE]

\* The plain fields of the model: AB and Ab, untagged or tagged "AB" or "ab";
\* the unexported field ab; and AB tagged "-".
PlainFields ==
    { Plain(n, g) : n \in { <<65, 66>>, <<65, 98>> },
                    g \in { <<>>, <<65, 66>>, <<97, 98>> } }
    \cup { Plain(<<97, 98>>, <<>>), Plain(<<65, 66>>, <<45>>) }

\* The i-th field of a struct, an embedded struct with the fields fs; its
\* name, the name of the embedded type, is E followed by the digit i.
Embedded(i, fs) ==
    [name |-> <<69, 48 + i>>, tag |-> <<>>, anon |-> TRUE, fields |-> fs, ptr |-> FALSE]

\* The struct types with at most MaxFields fields and embedding at most
\* depth deep; Go rejects a struct that declares a name twice.
RECURSIVE StructTypes(_)
StructTypes(depth) ==
    LET inner == IF depth = 0 THEN {} ELSE StructTypes(depth - 1)
        FieldsAt(i) == PlainFields \cup { Embedded(i, fs) : fs \in inner }
    IN  { T \in UNION { [1..n -> PlainFields \cup UNION { FieldsAt(i) : i \in 1..MaxFields }] :
                        n \in 1..MaxFields } :
            /\ \A i \in DOMAIN T : T[i].anon => T[i] \in FieldsAt(i)
            /\ \A i, j \in DOMAIN T : i # j => T[i].name # T[j].name }

Callers == {1, 2}

InitFld ==
    /\ ftype \in StructTypes(MaxEmbed)
    /\ fcache = [ok |-> FALSE]
    /\ fpc = [c \in Callers |-> "call"]
    /\ fres = [c \in Callers |-> <<>>]
    /\ LexIdle(<<>>)
    /\ ParIdle
    /\ EncIdle
    /\ DecIdle
    /\ RtIdle
    /\ FnIdle

\* cachedFields, its fieldCache.Load: a hit returns the cached map.
FieldsLoad(c) ==
    /\ fpc[c] = "call"
    /\ IF fcache.ok
       THEN fpc' = [fpc EXCEPT ![c] = "done"] /\ fres' = [fres EXCEPT ![c] = fcache.m]
       ELSE fpc' = [fpc EXCEPT ![c] = "miss"] /\ fres' = fres
    /\ UNCHANGED <<ftype, fcache, notFldVars>>

\* cachedFields after a miss: the entries are collected, precedenceMap and
\* finalFields are filled, the map is stored in the cache and returned.
FieldsCompute(c) ==
    /\ fpc[c] = "miss"
    /\ LET prec == precedenceMap(ftype) IN
       \E order \in RangeOrders(DOMAIN prec) :
           LET m == finalFields(prec, order) IN
           /\ fcache' = [ok |-> TRUE, m |-> m]
           /\ fres' = [fres EXCEPT ![c] = m]
    /\ fpc' = [fpc EXCEPT ![c] = "done"]
    /\ UNCHANGED <<ftype, notFldVars>>

CallerLoads == \E c \in Callers : FieldsLoad(c)

CallerComputes == \E c \in Callers : FieldsCompute(c)

NextFld ==
    \/ CallerLoads
    \/ CallerComputes

SpecFld == InitFld /\ [][NextFld]_vars

\* The entries that declare the name, with their place in declaration order.
Declaring(T, name) ==
    LET es == walkAndCollect(T) IN
    { [pos |-> i, e |-> es[i]] : i \in { j \in DOMAIN es : es[j].name = name } }

DeclaredNames(T) ==
    LET es == walkAndCollect(T) IN { es[i].name : i \in DOMAIN es }

\* C7: all calls of the resolver for a type return the same map.
C7_SameMapForAllCallers ==
    \A c1, c2 \in Callers :
        (fpc[c1] = "done" /\ fpc[c2] = "done") => fres[c1] = fres[c2]

\* C8: a declared name is bound to the field of smallest embedding depth that
\* declares it, and among those of that depth to the one declared first.
C8_ShallowestThenFirst ==
    \A c \in Callers : fpc[c] = "done" =>
        \A name \in DeclaredNames(ftype) :
            /\ name \in DOMAIN fres[c]
            /\ \E w \in Declaring(ftype, name) :
                  /\ fres[c][name] = w.e.f
                  /\ \A o \in Declaring(ftype, name) :
                        \/ w.e.depth < o.e.depth
                        \/ (w.e.depth = o.e.depth /\ w.pos <= o.pos)

\* The name AB declared by an embedded struct first and by the outer struct
\* after it: the outer field, the second, is bound.
C8_Witness ==
    /\ Len(ftype) = 2 /\ ftype[1].anon /\ ~ftype[2].anon
    /\ \E o \in Declaring(ftype, <<65, 66>>) : o.e.depth = 1 /\ o.pos = 1
    /\ \E c \in Callers :
          /\ fpc[c] = "done"
          /\ <<65, 66>> \in DOMAIN fres[c]
          /\ fres[c][<<65, 66>>] = <<1>>

\* C9: when a field declares a name by its tag at a depth that no other field
\* declaring the name is above, and another field declares it by its Go name,
\* the name is bound to the field that declares it by tag.
C9_TagWins ==
    \A c \in Callers : fpc[c] = "done" =>
        \A name \in DeclaredNames(ftype) :
            \A g, n \in Declaring(ftype, name) :
                ( /\ g.e.tagged /\ ~n.e.tagged /\ g.e.f # n.e.f
                  /\ \A o \in Declaring(ftype, name) : o.e.depth >= g.e.depth
                  /\ \A o \in Declaring(ftype, name) :
                        (o.e.tagged /\ o.e.depth = g.e.depth) => o.pos >= g.pos )
                => fres[c][name] = g.e.f

\* Two distinct fields declare the name at the smallest depth at which it is
\* declared, both by tag or both by Go name.
Tied(T, name) ==
    \E a, b \in Declaring(T, name) :
        /\ a.e.f # b.e.f
        /\ a.e.depth = b.e.depth
        /\ a.e.tagged = b.e.tagged
        /\ \A o \in Declaring(T, name) : o.e.depth >= a.e.depth

\* C10 as stated: a name for which distinct fields are tied at the same depth
\* has no binding.
C10_TiesDropped ==
    \A c \in Callers : fpc[c] = "done" =>
        \A name \in DeclaredNames(ftype) :
            Tied(ftype, name) => findField(fres[c], name).ok = FALSE

\* C10, amended: a name for which distinct fields are tied at the same depth
\* is bound to the one of them that is declared first.
C10_TiesFirstDeclared ==
    \A c \in Callers : fpc[c] = "done" =>
        \A name \in DeclaredNames(ftype) :
            Tied(ftype, name) =>
                \E w \in Declaring(ftype, name) :
                    /\ findField(fres[c], name) = [ok |-> TRUE, f |-> w.e.f]
                    /\ \A o \in Declaring(ftype, name) :
                          o.e.depth > w.e.depth
                          \/ (o.e.depth = w.e.depth /\ o.pos >= w.pos)

\* Two embedded structs at the same depth both declare AB; the first one's
\* field is bound.
C10_Witness ==
    /\ Len(ftype) = 2 /\ ftype[1].anon /\ ftype[2].anon
    /\ Tied(ftype, <<65, 66>>)
    /\ \E c \in Callers :
          /\ fpc[c] = "done"
          /\ <<65, 66>> \in DOMAIN fres[c]
          /\ fres[c][<<65, 66>>] = <<0, 0>>

\* C11: a key that is spelled exactly as a declared name is bound by findField
\* to the field that the precedence rule chose for that name, whatever
\* lower-cased entries the other names put into the map.
C11_ExactNameBinds ==
    \A c \in Callers : fpc[c] = "done" =>
        \A name \in DeclaredNames(ftype) :
            /\ findField(fres[c], name).ok
            /\ findField(fres[c], name).f = precedenceMap(ftype)[name].f
            /\ \E w \in Declaring(ftype, name) : findField(fres[c], name).f = w.e.f

\* struct{AB int; Ab int `maml:"ab"`}: AB and Ab lower-case to ab, the name
\* the second field declares by its tag, and ab is bound to the second field.
C11_Witness ==
    /\ ftype = <<Plain(<<65, 66>>, <<>>), Plain(<<65, 98>>, <<97, 98>>)>>
    /\ \E c \in Callers :
          /\ fpc[c] = "done"
          /\ <<97, 98>> \in DOMAIN fres[c]
          /\ fres[c][<<97, 98>>] = <<1>>
          /\ fres[c][<<65, 66>>] = <<0>>

----------------------------------------------------------------------------
\* mapStruct (src/unnamed/part_008): an object decoded into a struct whose
\* fields, the promoted ones included, are all of type int; the struct may
\* embed a struct or a pointer to one

\* The result of mapStruct: the error, the fields set (by index path),
\* seenFields, and the embedded pointers set to a new struct (by index path).
SRes(err, vals, seenFields, alloc) ==
    [err |-> err, vals |-> vals, seenFields |-> seenFields, alloc |-> alloc]

\* A reflect.Value on an index path: the field sf it is (its struct's fields
\* if it is a struct or a pointer to one), whether it is a nil pointer, and
\* its read-only flag: "embed" for an unexported embedded field, "sticky"
\* for an unexported field that is not embedded and all that is below one.
RValue(sf, nil, ro) == [sf |-> sf, nil |-> nil, ro |-> ro]

\* The struct decoded into: addressable, not read-only
Root(T) == RValue([name |-> <<>>, tag |-> <<>>, anon |-> TRUE, fields |-> T,
                   ptr |-> FALSE], FALSE, "none")

\* reflect.Value.CanSet of a value reached from the struct decoded into
CanSet(v) == v.ro = "none"

\* reflect.Value.Field, of the struct v or the struct the pointer v points
\* to, with the index path of the field: the field keeps "sticky" and is
\* read-only if its name is unexported; an embedded pointer is nil if the
\* struct decoded into came with nil pointers (nilptr) and the decoder has
\* not set it.
Field(v, fieldIndex, path, nilptr, alloc) ==
    LET sf == v.sf.fields[fieldIndex + 1] IN
    RValue(sf, sf.ptr /\ nilptr /\ path \notin alloc,
           IF v.ro = "sticky" THEN "sticky"
           ELSE IF IsExported(sf.name) THEN "none"
           ELSE IF sf.anon THEN "embed"
           ELSE "sticky")

\* The result of resolveFieldPath
PathRes(err, v, alloc) == [err |-> err, v |-> v, alloc |-> alloc]

\* resolveFieldPath from the i-th index of idx on, with currentVal
RECURSIVE resolveFieldPath(_, _, _, _, _)
resolveFieldPath(currentVal, idx, i, nilptr, alloc) ==
    IF i > Len(idx) THEN PathRes("", currentVal, alloc)
    ELSE IF currentVal.sf.ptr /\ currentVal.nil /\ ~CanSet(currentVal)
    THEN PathRes("cannot set nil embedded pointer", currentVal, alloc)
    ELSE IF ~currentVal.sf.anon
    THEN PathRes("expected struct at path segment", currentVal, alloc)
    ELSE LET alloc1 == IF currentVal.sf.ptr /\ currentVal.nil
                       THEN alloc \cup {SubSeq(idx, 1, i - 1)} ELSE alloc
         IN  resolveFieldPath(Field(currentVal, idx[i], SubSeq(idx, 1, i), nilptr, alloc1),
                              idx, i + 1, nilptr, alloc1)

\* The loop of mapStruct over obj.Pairs, from the i-th pair on, into the
\* struct rv of type T; every field that is not embedded is an int.
RECURSIVE mapStructFrom(_, _, _, _, _, _, _, _, _)
mapStructFrom(pairs, i, fields, T, nilptr, depth, vals, seenFields, alloc) ==
    IF i > Len(pairs) THEN SRes("", vals, seenFields, alloc)
    ELSE LET key == resolveMapKey(pairs[i].key) IN
         IF key.err # "" THEN SRes(key.err, vals, seenFields, alloc)
         ELSE LET targetField == findField(fields, key.key) IN
              IF ~targetField.ok
              THEN mapStructFrom(pairs, i + 1, fields, T, nilptr, depth, vals,
                                 seenFields, alloc)
              ELSE LET fv == resolveFieldPath(Root(T), targetField.f, 1, nilptr, alloc) IN
                   IF fv.err # "" THEN SRes(fv.err, vals, seenFields, fv.alloc)
                   ELSE IF ~CanSet(fv.v)     \* IsValid holds of every field
                   THEN mapStructFrom(pairs, i + 1, fields, T, nilptr, depth, vals,
                                      seenFields, fv.alloc)
                   ELSE LET r == mapValue(pairs[i].value, TInt(64), depth) IN
                        IF r.err # "" THEN SRes(r.err, vals, seenFields, fv.alloc)
                        ELSE mapStructFrom(pairs, i + 1, fields, T, nilptr, depth,
                                           MapSet(vals, targetField.f, r.v),
                                           seenFields \cup {key.key}, fv.alloc)

\* checkUnknownFields from the i-th pair on
RECURSIVE checkUnknownFields(_, _, _)
checkUnknownFields(pairs, i, seenFields) ==
    IF i > Len(pairs) THEN ""
    ELSE IF resolveMapKey(pairs[i].key).err # "" THEN resolveMapKey(pairs[i].key).err
    ELSE IF resolveMapKey(pairs[i].key).key \notin seenFields THEN "unknown field"
    ELSE checkUnknownFields(pairs, i + 1, seenFields)

strictCheck_never(disallowUnknownFields) == FALSE
\* if ds.opts.disallowUnknownFields
strictCheck(disallowUnknownFields) == disallowUnknownFields

\* mapStruct into a struct of type T with the map cachedFields returned;
\* depth is ds.depth, nilptr tells that the struct's embedded pointers are nil.
mapStruct(obj, fields, T, nilptr, disallowUnknownFields, depth) ==
    LET r == mapStructFrom(obj.pairs, 1, fields, T, nilptr, depth, <<>>, {}, {}) IN
    IF r.err # "" THEN r
    ELSE IF strictCheck(disallowUnknownFields)
    THEN SRes(checkUnknownFields(obj.pairs, 1, r.seenFields), r.vals, r.seenFields,
              r.alloc)
    ELSE r

MaxPairs == 2

\* The keys of the objects decoded: AB, ab, and Zz, which no struct of the
\* model declares in any case.
StructKeys == { <<65, 66>>, <<97, 98>>, <<90, 122>> }

\* The values of the pairs: 1, and "a", which no int field takes.
StructVals == { [k |-> "int", v |-> 1, lit |-> <<49>>], [k |-> "string", v |-> <<97>>] }

StructObjects ==
    { [k |-> "object",
       pairs |-> [i \in 1..n |-> EmptyPair([k |-> "ident", v |-> ks[i]], vs[i])]] :
      n \in 0..MaxPairs, ks \in [1..MaxPairs -> StructKeys],
      vs \in [1..MaxPairs -> StructVals] }

\* The embedded field sf as an embedded struct or pointer to a struct, of an
\* exported type (E1) or an unexported one (e1)
AsEmbedded(sf, ptr, exported) ==
    [sf EXCEPT !.ptr = ptr, !.name = IF exported THEN @ ELSE <<101, @[2]>>]

\* The struct types decoded into: one field, plain or embedded, or two plain
\* fields; an embedded field is a struct or a pointer to one, of an exported
\* or an unexported type.
StructTargets ==
    { [i \in DOMAIN T |-> IF T[i].anon THEN AsEmbedded(T[i], ptr, exported) ELSE T[i]] :
        T \in { U \in StructTypes(MaxEmbed) : Len(U) = 1 \/ \A i \in DOMAIN U : ~U[i].anon },
        ptr \in BOOLEAN, exported \in BOOLEAN }

\* Whether the embedded pointers of the struct decoded into are nil: they
\* are in a zero struct, the caller may have set them.
NilChoices(T) == IF \E i \in DOMAIN T : T[i].ptr THEN BOOLEAN ELSE {FALSE}

InitStruct ==
    /\ ftype \in StructTargets
    /\ fcache = [ok |-> FALSE]
    /\ fpc = [c \in Callers |-> "call"]
    /\ fres = [c \in Callers |-> <<>>]
    /\ pin \in [obj : StructObjects, strict : BOOLEAN, nilptr : NilChoices(ftype)]
    /\ pout = [done |-> FALSE]
    /\ LexIdle(<<>>)
    /\ ParIdle
    /\ EncIdle
    /\ DecIdle
    /\ RtIdle

\* mapStruct's call of cachedFields
StructFieldsLoad == FieldsLoad(1)

StructFieldsCompute == FieldsCompute(1)

\* mapValue on the object with the struct as its target, entered with the
\* default depth limit: mapStruct runs one level down.
MapStruct ==
    /\ fpc[1] = "done"
    /\ ~pout.done
    /\ pout' = [done |-> TRUE,
                r |-> mapStruct(pin.obj, fres[1], ftype, pin.nilptr, pin.strict,
                                defaultMaxDepth - 1)]
    /\ UNCHANGED <<pin, fldVars, notFnVars>>

NextStruct ==
    \/ StructFieldsLoad
    \/ StructFieldsCompute
    \/ MapStruct

SpecStruct == InitStruct /\ [][NextStruct]_vars

\* The i-th key of the object binds to no field under findField.
Unbound(i) == ~findField(fres[1], pin.obj.pairs[i].key.v).ok

\* The i-th key binds to a field promoted through an embedded pointer of an
\* unexported type, which is nil: reflection cannot set that pointer.
Blocked(i) ==
    LET idx == findField(fres[1], pin.obj.pairs[i].key.v).f IN
    /\ ~Unbound(i)
    /\ Len(idx) > 1
    /\ ftype[idx[1] + 1].ptr
    /\ ~IsExported(ftype[idx[1] + 1].name)
    /\ pin.nilptr

\* The loop over the pairs ends early with an error of its own: some key
\* binds to a field that does not take the pair's value, or that cannot be
\* reached.
LoopFails ==
    \E i \in DOMAIN pin.obj.pairs :
        ~Unbound(i) /\ (pin.obj.pairs[i].value.k # "int" \/ Blocked(i))

SomeUnbound == \E i \in DOMAIN pin.obj.pairs : Unbound(i)

\* C12 as the specification states it: in strict mode mapStruct returns the
\* unknown-field error if and only if some key of the object binds to no
\* field; without strict mode it never returns that error.
C12_UnknownFieldIff ==
    pout.done =>
        /\ pin.strict => ((pout.r.err = "unknown field") <=> SomeUnbound)
        /\ ~pin.strict => pout.r.err # "unknown field"

\* C12, amended: in strict mode mapStruct fails whenever some key of the
\* object binds to no field, and the error is the unknown-field error if and
\* only if some key binds to no field and the loop over the pairs has not
\* ended with an error of its own (a bound value that its field does not
\* take, a nil embedded pointer that cannot be set); without strict mode it
\* never returns the unknown-field error, the keys that bind to no field set
\* nothing, and there is no error unless the loop ends with its own.
C12_StrictUnknownField ==
    pout.done =>
        /\ pin.strict =>
              ((pout.r.err = "unknown field") <=> (SomeUnbound /\ ~LoopFails))
        /\ (pin.strict /\ SomeUnbound) => pout.r.err # ""
        /\ LoopFails => pout.r.err \notin {"", "unknown field"}
        /\ ~pin.strict => pout.r.err # "unknown field"
        /\ (~pin.strict /\ ~LoopFails) =>
              /\ pout.r.err = ""
              /\ pout.r.seenFields =
                    { pin.obj.pairs[i].key.v : i \in { j \in DOMAIN pin.obj.pairs : ~Unbound(j) } }

\* struct{AB int} and the object {ab: 1, Zz: 1} in strict mode: ab binds to AB
\* through the lower-cased name, Zz binds to nothing.
C12_Witness ==
    /\ pout.done
    /\ pin.strict
    /\ ftype = <<Plain(<<65, 66>>, <<>>)>>
    /\ Len(pin.obj.pairs) = 2
    /\ pin.obj.pairs[1].key.v = <<97, 98>>
    /\ pin.obj.pairs[2].key.v = <<90, 122>>
    /\ ~LoopFails
    /\ pout.r.err = "unknown field"
    /\ pout.r.seenFields = {<<97, 98>>}

----------------------------------------------------------------------------
\* Marshal: the encoder on a value without cycles (src/unnamed/part_018) and
\* the formatter (src/format.go)

\* fmt.Sprintf("%d", val)
RECURSIVE Digits(_)
Digits(n) == IF n < 10 THEN <<48 + n>> ELSE Digits(n \div 10) \o <<48 + (n % 10)>>

FormatInt(v) == IF v < 0 THEN <<45>> \o Digits(0 - v) ELSE Digits(v)

\* strings.Contains
Contains(s, sub) ==
    \E i \in 1..(Len(s) - Len(sub) + 1) : SubSeq(s, i, i + Len(sub) - 1) = sub

\* strings.ContainsRune
ContainsRune(s, r) == \E i \in DOMAIN s : s[i] = r

\* a < b for strings
RECURSIVE LessStr(_, _)
LessStr(a, b) ==
    IF b = <<>> THEN FALSE
    ELSE IF a = <<>> THEN TRUE
    ELSE IF Head(a) # Head(b) THEN Head(a) < Head(b)
    ELSE LessStr(Tail(a), Tail(b))

\* v.MapKeys() after the sort.Slice
RECURSIVE SortedKeys(_)
SortedKeys(S) ==
    IF S = {} THEN <<>>
    ELSE LET m == CHOOSE x \in S : \A y \in S : x = y \/ LessStr(x, y) IN
         <<m>> \o SortedKeys(S \ {m})

isBareKey(s) ==
    IF s = <<>> THEN FALSE
    ELSE IF LookupIdent(s) # "IDENT" THEN FALSE
    ELSE IF ParseAsNumber(s).ok THEN TRUE
    ELSE IF s[1] = 45 THEN FALSE
    ELSE \A i \in DOMAIN s : isIdentifierChar(s[i])

\* The key node of a pair made by marshalMap or marshalStruct.
keyNode(keyStr) ==
    IF isBareKey(keyStr) THEN [k |-> "ident", v |-> keyStr]
    ELSE [k |-> "string", v |-> keyStr]

MRes(err, node) == [err |-> err, node |-> node]

NullNode == [k |-> "null"]

marshalString(v) == MRes("", [k |-> "string", v |-> v.v])

\* The IntegerLiteral of an integer: a number, or one kept as its text
IntNode(v) ==
    IF IsBig(v) THEN [k |-> "int", v |-> v.v, lit |-> v.v, big |-> TRUE]
    ELSE [k |-> "int", v |-> v.v, lit |-> FormatInt(v.v)]

marshalInt(v) == MRes("", IntNode(v))

\* if val > math.MaxInt64
marshalUint(v) ==
    IF IsBig(v) /\ ~NumberLeq(v.v, TextMaxInt64)
    THEN MRes("cannot marshal uint64 into MAML (overflows int64)", [k |-> "null"])
    ELSE MRes("", IntNode(v))

Zeros(n) == [i \in 1..n |-> 48]

DigitChars(d) == [i \in DOMAIN d |-> 48 + d[i]]

\* strconv's fmtE: d.ddde+dd, prec digits after the point
fmtE(neg, d, dp, prec) ==
    LET nd  == Len(d)
        exp == IF nd = 0 THEN 0 ELSE dp - 1
        ax  == IF exp < 0 THEN 0 - exp ELSE exp
        m   == IF nd < prec + 1 THEN nd ELSE prec + 1
    IN  (IF neg THEN <<45>> ELSE <<>>)
        \o (IF nd = 0 THEN <<48>> ELSE <<48 + d[1]>>)
        \o (IF prec > 0
            THEN <<46>> \o DigitChars(SubSeq(d, 2, m)) \o Zeros(prec + 1 - (IF m < 1 THEN 1 ELSE m))
            ELSE <<>>)
        \o <<101>>
        \o (IF exp < 0 THEN <<45>> ELSE <<43>>)
        \o (IF ax < 10 THEN <<48>> \o Digits(ax) ELSE Digits(ax))

\* strconv's fmtF: ddd.ddd, prec digits after the point
fmtF(neg, d, dp, prec) ==
    LET nd == Len(d)
        digitAt(j) == IF j >= 0 /\ j < nd THEN 48 + d[j + 1] ELSE 48
    IN  (IF neg THEN <<45>> ELSE <<>>)
        \o (IF dp > 0 THEN [i \in 1..dp |-> digitAt(i - 1)] ELSE <<48>>)
        \o (IF prec > 0 THEN <<46>> \o [i \in 1..prec |-> digitAt(dp + i - 1)]
            ELSE <<>>)

\* strconv.FormatFloat(val, 'g', -1, 64): the shortest digits, in %e form
\* when the exponent is below -4 or at least 6 (eprec of the shortest form)
FormatFloat(f) ==
    CASE f.k = "nan" -> <<78, 97, 78>>
      [] f.k = "inf" -> (IF f.neg THEN <<45>> ELSE <<43>>) \o <<73, 110, 102>>
      [] OTHER ->
            LET nd   == Len(f.d)
                exp  == f.dp - 1
            IN  IF exp < -4 \/ exp >= 6
                THEN fmtE(f.neg, f.d, f.dp, nd - 1)
                ELSE fmtF(f.neg, f.d, f.dp, IF nd - f.dp > 0 THEN nd - f.dp ELSE 0)

marshalFloat(f) ==
    LET lit == FormatFloat(f) IN
    MRes("", [k |-> "float",
              lit |-> IF \E i \in DOMAIN lit : lit[i] \in {46, 101, 69}
                      THEN lit ELSE lit \o <<46, 48>>])

marshalBool(v) == MRes("", [k |-> "bool", v |-> v.v])

\* v.Pointer() of a pointer, a slice or a map that is not nil.  The values of
\* the model are trees: a reference has the address its place in the value
\* gives it (path, the indices from the root), which no other reference has,
\* unless it carries the address of another one in its field at (a slice cut
\* from a slice on the way to it, a pointer to the first element of one).
PointerOf(v, path) == IF "at" \in DOMAIN v THEN v.at ELSE path

RECURSIVE marshalValue(_, _, _, _)
RECURSIVE marshalSliceFrom(_, _, _, _, _, _)
RECURSIVE marshalMapFrom(_, _, _, _, _, _, _)

marshalSliceFrom(T, elems, i, nodes, eseen, path) ==
    IF i > Len(elems) THEN MRes("", [k |-> "array", elems |-> nodes])
    ELSE LET r == marshalValue(T.elem, elems[i], eseen, Append(path, i)) IN
         IF r.err # "" THEN r
         ELSE marshalSliceFrom(T, elems, i + 1, Append(nodes, r.node), eseen, path)

\* eseen is e.seen when the call is made; the address the call puts in is
\* deleted when it returns, so the caller goes on with the set it had.
marshalSlice(T, v, eseen, path) ==
    IF v = NilV THEN MRes("", NullNode)
    ELSE IF inSeen(PointerOf(v, path), eseen)
    THEN MRes("encountered a cycle", NullNode)
    ELSE marshalSliceFrom(T, v.elems, 1, <<>>, eseen \cup {PointerOf(v, path)}, path)

marshalMapFrom(T, m, keys, i, pairs, eseen, path) ==
    IF i > Len(keys) THEN MRes("", [k |-> "object", pairs |-> pairs])
    ELSE LET r == marshalValue(T.elem, m[keys[i]], eseen, Append(path, i)) IN
         IF r.err # "" THEN r
         ELSE marshalMapFrom(T, m, keys, i + 1,
                             Append(pairs, EmptyPair(keyNode(keys[i]), r.node)),
                             eseen, path)

marshalMap(T, v, eseen, path) ==
    IF v = NilV THEN MRes("", NullNode)
    ELSE IF inSeen(PointerOf(v, path), eseen)
    THEN MRes("encountered a cycle", NullNode)
    ELSE IF ~StringKeys(T)
    THEN MRes("map key type must be a string", NullNode)
    ELSE marshalMapFrom(T, v.m, SortedKeys(DOMAIN v.m), 1, <<>>,
                        eseen \cup {PointerOf(v, path)}, path)

marshalPointer(T, v, eseen, path) ==
    IF v = NilV THEN MRes("", NullNode)
    ELSE IF inSeen(PointerOf(v, path), eseen)
    THEN MRes("encountered a cycle", NullNode)
    ELSE marshalValue(T.elem, v.v, eseen \cup {PointerOf(v, path)}, Append(path, 1))

\* An interface holds nil or a value with its dynamic type.
marshalInterface(T, v, eseen, path) ==
    IF v = NilV THEN MRes("", NullNode)
    ELSE marshalValue(v.t, v.v, eseen, path)

\* marshalValue on a value v of the static type T; no type of the model has
\* a marshaler of its own.  The nil interface handed to Marshal is the
\* reflect.Value that is not valid.  The types of the model are all of kinds
\* that have a case; the default case is for chan, func and the like.
marshalValue(T, v, eseen, path) ==
    CASE T.k = "ptr"    -> marshalPointer(T, v, eseen, path)
      [] T.k = "any"    -> marshalInterface(T, v, eseen, path)
      [] T.k = "string" -> marshalString(v)
      [] T.k = "int"    -> marshalInt(v)
      [] T.k = "uint"   -> marshalUint(v)
      [] T.k = "float"  -> marshalFloat(v.f)
      [] T.k = "bool"   -> marshalBool(v)
      [] T.k = "slice"  -> marshalSlice(T, v, eseen, path)
      [] T.k = "map"    -> marshalMap(T, v, eseen, path)
      [] OTHER          -> MRes("unsupported type for marshaling", NullNode)

defaultIndent == 2

tripleQuote == <<34, 34, 34>>

HexDigit(n) == IF n < 10 THEN 48 + n ELSE 87 + n

\* The runes above ASCII that strconv.IsPrint accepts: the letters, marks,
\* numbers, punctuation and symbols of Unicode 15.0.0, as ranges <<lo, hi>>.
PrintRanges ==
    << <<161, 172>>, <<174, 887>>, <<890, 895>>, <<900, 906>>, <<908, 908>>,
       <<910, 929>>, <<931, 1327>>, <<1329, 1366>>, <<1369, 1418>>,
       <<1421, 1423>>, <<1425, 1479>>, <<1488, 1514>>, <<1519, 1524>>,
       <<1542, 1563>>, <<1565, 1756>>, <<1758, 1805>>, <<1808, 1866>>,
       <<1869, 1969>>, <<1984, 2042>>, <<2045, 2093>>, <<2096, 2110>>,
       <<2112, 2139>>, <<2142, 2142>>, <<2144, 2154>>, <<2160, 2190>>,
       <<2200, 2273>>, <<2275, 2435>>, <<2437, 2444>>, <<2447, 2448>>,
       <<2451, 2472>>, <<2474, 2480>>, <<2482, 2482>>, <<2486, 2489>>,
       <<2492, 2500>>, <<2503, 2504>>, <<2507, 2510>>, <<2519, 2519>>,
       <<2524, 2525>>, <<2527, 2531>>, <<2534, 2558>>, <<2561, 2563>>,
       <<2565, 2570>>, <<2575, 2576>>, <<2579, 2600>>, <<2602, 2608>>,
       <<2610, 2611>>, <<2613, 2614>>, <<2616, 2617>>, <<2620, 2620>>,
       <<2622, 2626>>, <<2631, 2632>>, <<2635, 2637>>, <<2641, 2641>>,
       <<2649, 2652>>, <<2654, 2654>>, <<2662, 2678>>, <<2689, 2691>>,
       <<2693, 2701>>, <<2703, 2705>>, <<2707, 2728>>, <<2730, 2736>>,
       <<2738, 2739>>, <<2741, 2745>>, <<2748, 2757>>, <<2759, 2761>>,
       <<2763, 2765>>, <<2768, 2768>>, <<2784, 2787>>, <<2790, 2801>>,
       <<2809, 2815>>, <<2817, 2819>>, <<2821, 2828>>, <<2831, 2832>>,
       <<2835, 2856>>, <<2858, 2864>>, <<2866, 2867>>, <<2869, 2873>>,
       <<2876, 2884>>, <<2887, 2888>>, <<2891, 2893>>, <<2901, 2903>>,
       <<2908, 2909>>, <<2911, 2915>>, <<2918, 2935>>, <<2946, 2947>>,
       <<2949, 2954>>, <<2958, 2960>>, <<2962, 2965>>, <<2969, 2970>>,
       <<2972, 2972>>, <<2974, 2975>>, <<2979, 2980>>, <<2984, 2986>>,
       <<2990, 3001>>, <<3006, 3010>>, <<3014, 3016>>, <<3018, 3021>>,
       <<3024, 3024>>, <<3031, 3031>>, <<3046, 3066>>, <<3072, 3084>>,
       <<3086, 3088>>, <<3090, 3112>>, <<3114, 3129>>, <<3132, 3140>>,
       <<3142, 3144>>, <<3146, 3149>>, <<3157, 3158>>, <<3160, 3162>>,
       <<3165, 3165>>, <<3168, 3171>>, <<3174, 3183>>, <<3191, 3212>>,
       <<3214, 3216>>, <<3218, 3240>>, <<3242, 3251>>, <<3253, 3257>>,
       <<3260, 3268>>, <<3270, 3272>>, <<3274, 3277>>, <<3285, 3286>>,
       <<3293, 3294>>, <<3296, 3299>>, <<3302, 3311>>, <<3313, 3315>>,
       <<3328, 3340>>, <<3342, 3344>>, <<3346, 3396>>, <<3398, 3400>>,
       <<3402, 3407>>, <<3412, 3427>>, <<3430, 3455>>, <<3457, 3459>>,
       <<3461, 3478>>, <<3482, 3505>>, <<3507, 3515>>, <<3517, 3517>>,
       <<3520, 3526>>, <<3530, 3530>>, <<3535, 3540>>, <<3542, 3542>>,
       <<3544, 3551>>, <<3558, 3567>>, <<3570, 3572>>, <<3585, 3642>>,
       <<3647, 3675>>, <<3713, 3714>>, <<3716, 3716>>, <<3718, 3722>>,
       <<3724, 3747>>, <<3749, 3749>>, <<3751, 3773>>, <<3776, 3780>>,
       <<3782, 3782>>, <<3784, 3790>>, <<3792, 3801>>, <<3804, 3807>>,
       <<3840, 3911>>, <<3913, 3948>>, <<3953, 3991>>, <<3993, 4028>>,
       <<4030, 4044>>, <<4046, 4058>>, <<4096, 4293>>, <<4295, 4295>>,
       <<4301, 4301>>, <<4304, 4680>>, <<4682, 4685>>, <<4688, 4694>>,
       <<4696, 4696>>, <<4698, 4701>>, <<4704, 4744>>, <<4746, 4749>>,
       <<4752, 4784>>, <<4786, 4789>>, <<4792, 4798>>, <<4800, 4800>>,
       <<4802, 4805>>, <<4808, 4822>>, <<4824, 4880>>, <<4882, 4885>>,
       <<4888, 4954>>, <<4957, 4988>>, <<4992, 5017>>, <<5024, 5109>>,
       <<5112, 5117>>, <<5120, 5759>>, <<5761, 5788>>, <<5792, 5880>>,
       <<5888, 5909>>, <<5919, 5942>>, <<5952, 5971>>, <<5984, 5996>>,
       <<5998, 6000>>, <<6002, 6003>>, <<6016, 6109>>, <<6112, 6121>>,
       <<6128, 6137>>, <<6144, 6157>>, <<6159, 6169>>, <<6176, 6264>>,
       <<6272, 6314>>, <<6320, 6389>>, <<6400, 6430>>, <<6432, 6443>>,
       <<6448, 6459>>, <<6464, 6464>>, <<6468, 6509>>, <<6512, 6516>>,
       <<6528, 6571>>, <<6576, 6601>>, <<6608, 6618>>, <<6622, 6683>>,
       <<6686, 6750>>, <<6752, 6780>>, <<6783, 6793>>, <<6800, 6809>>,
       <<6816, 6829>>, <<6832, 6862>>, <<6912, 6988>>, <<6992, 7038>>,
       <<7040, 7155>>, <<7164, 7223>>, <<7227, 7241>>, <<7245, 7304>>,
       <<7312, 7354>>, <<7357, 7367>>, <<7376, 7418>>, <<7424, 7957>>,
       <<7960, 7965>>, <<7968, 8005>>, <<8008, 8013>>, <<8016, 8023>>,
       <<8025, 8025>>, <<8027, 8027>>, <<8029, 8029>>, <<8031, 8061>>,
       <<8064, 8116>>, <<8118, 8132>>, <<8134, 8147>>, <<8150, 8155>>,
       <<8157, 8175>>, <<8178, 8180>>, <<8182, 8190>>, <<8208, 8231>>,
       <<8240, 8286>>, <<8304, 8305>>, <<8308, 8334>>, <<8336, 8348>>,
       <<8352, 8384>>, <<8400, 8432>>, <<8448, 8587>>, <<8592, 9254>>,
       <<9280, 9290>>, <<9312, 11123>>, <<11126, 11157>>, <<11159, 11507>>,
       <<11513, 11557>>, <<11559, 11559>>, <<11565, 11565>>,
       <<11568, 11623>>, <<11631, 11632>>, <<11647, 11670>>,
       <<11680, 11686>>, <<11688, 11694>>, <<11696, 11702>>,
       <<11704, 11710>>, <<11712, 11718>>, <<11720, 11726>>,
       <<11728, 11734>>, <<11736, 11742>>, <<11744, 11869>>,
       <<11904, 11929>>, <<11931, 12019>>, <<12032, 12245>>,
       <<12272, 12283>>, <<12289, 12351>>, <<12353, 12438>>,
       <<12441, 12543>>, <<12549, 12591>>, <<12593, 12686>>,
       <<12688, 12771>>, <<12784, 12830>>, <<12832, 42124>>,
       <<42128, 42182>>, <<42192, 42539>>, <<42560, 42743>>,
       <<42752, 42954>>, <<42960, 42961>>, <<42963, 42963>>,
       <<42965, 42969>>, <<42994, 43052>>, <<43056, 43065>>,
       <<43072, 43127>>, <<43136, 43205>>, <<43214, 43225>>,
       <<43232, 43347>>, <<43359, 43388>>, <<43392, 43469>>,
       <<43471, 43481>>, <<43486, 43518>>, <<43520, 43574>>,
       <<43584, 43597>>, <<43600, 43609>>, <<43612, 43714>>,
       <<43739, 43766>>, <<43777, 43782>>, <<43785, 43790>>,
       <<43793, 43798>>, <<43808, 43814>>, <<43816, 43822>>,
       <<43824, 43883>>, <<43888, 44013>>, <<44016, 44025>>,
       <<44032, 55203>>, <<55216, 55238>>, <<55243, 55291>>,
       <<63744, 64109>>, <<64112, 64217>>, <<64256, 64262>>,
       <<64275, 64279>>, <<64285, 64310>>, <<64312, 64316>>,
       <<64318, 64318>>, <<64320, 64321>>, <<64323, 64324>>,
       <<64326, 64450>>, <<64467, 64911>>, <<64914, 64967>>,
       <<64975, 64975>>, <<65008, 65049>>, <<65056, 65106>>,
       <<65108, 65126>>, <<65128, 65131>>, <<65136, 65140>>,
       <<65142, 65276>>, <<65281, 65470>>, <<65474, 65479>>,
       <<65482, 65487>>, <<65490, 65495>>, <<65498, 65500>>,
       <<65504, 65510>>, <<65512, 65518>>, <<65532, 65533>>,
       <<65536, 65547>>, <<65549, 65574>>, <<65576, 65594>>,
       <<65596, 65597>>, <<65599, 65613>>, <<65616, 65629>>,
       <<65664, 65786>>, <<65792, 65794>>, <<65799, 65843>>,
       <<65847, 65934>>, <<65936, 65948>>, <<65952, 65952>>,
       <<66000, 66045>>, <<66176, 66204>>, <<66208, 66256>>,
       <<66272, 66299>>, <<66304, 66339>>, <<66349, 66378>>,
       <<66384, 66426>>, <<66432, 66461>>, <<66463, 66499>>,
       <<66504, 66517>>, <<66560, 66717>>, <<66720, 66729>>,
       <<66736, 66771>>, <<66776, 66811>>, <<66816, 66855>>,
       <<66864, 66915>>, <<66927, 66938>>, <<66940, 66954>>,
       <<66956, 66962>>, <<66964, 66965>>, <<66967, 66977>>,
       <<66979, 66993>>, <<66995, 67001>>, <<67003, 67004>>,
       <<67072, 67382>>, <<67392, 67413>>, <<67424, 67431>>,
       <<67456, 67461>>, <<67463, 67504>>, <<67506, 67514>>,
       <<67584, 67589>>, <<67592, 67592>>, <<67594, 67637>>,
       <<67639, 67640>>, <<67644, 67644>>, <<67647, 67669>>,
       <<67671, 67742>>, <<67751, 67759>>, <<67808, 67826>>,
       <<67828, 67829>>, <<67835, 67867>>, <<67871, 67897>>,
       <<67903, 67903>>, <<67968, 68023>>, <<68028, 68047>>,
       <<68050, 68099>>, <<68101, 68102>>, <<68108, 68115>>,
       <<68117, 68119>>, <<68121, 68149>>, <<68152, 68154>>,
       <<68159, 68168>>, <<68176, 68184>>, <<68192, 68255>>,
       <<68288, 68326>>, <<68331, 68342>>, <<68352, 68405>>,
       <<68409, 68437>>, <<68440, 68466>>, <<68472, 68497>>,
       <<68505, 68508>>, <<68521, 68527>>, <<68608, 68680>>,
       <<68736, 68786>>, <<68800, 68850>>, <<68858, 68903>>,
       <<68912, 68921>>, <<69216, 69246>>, <<69248, 69289>>,
       <<69291, 69293>>, <<69296, 69297>>, <<69373, 69415>>,
       <<69424, 69465>>, <<69488, 69513>>, <<69552, 69579>>,
       <<69600, 69622>>, <<69632, 69709>>, <<69714, 69749>>,
       <<69759, 69820>>, <<69822, 69826>>, <<69840, 69864>>,
       <<69872, 69881>>, <<69888, 69940>>, <<69942, 69959>>,
       <<69968, 70006>>, <<70016, 70111>>, <<70113, 70132>>,
       <<70144, 70161>>, <<70163, 70209>>, <<70272, 70278>>,
       <<70280, 70280>>, <<70282, 70285>>, <<70287, 70301>>,
       <<70303, 70313>>, <<70320, 70378>>, <<70384, 70393>>,
       <<70400, 70403>>, <<70405, 70412>>, <<70415, 70416>>,
       <<70419, 70440>>, <<70442, 70448>>, <<70450, 70451>>,
       <<70453, 70457>>, <<70459, 70468>>, <<70471, 70472>>,
       <<70475, 70477>>, <<70480, 70480>>, <<70487, 70487>>,
       <<70493, 70499>>, <<70502, 70508>>, <<70512, 70516>>,
       <<70656, 70747>>, <<70749, 70753>>, <<70784, 70855>>,
       <<70864, 70873>>, <<71040, 71093>>, <<71096, 71133>>,
       <<71168, 71236>>, <<71248, 71257>>, <<71264, 71276>>,
       <<71296, 71353>>, <<71360, 71369>>, <<71424, 71450>>,
       <<71453, 71467>>, <<71472, 71494>>, <<71680, 71739>>,
       <<71840, 71922>>, <<71935, 71942>>, <<71945, 71945>>,
       <<71948, 71955>>, <<71957, 71958>>, <<71960, 71989>>,
       <<71991, 71992>>, <<71995, 72006>>, <<72016, 72025>>,
       <<72096, 72103>>, <<72106, 72151>>, <<72154, 72164>>,
       <<72192, 72263>>, <<72272, 72354>>, <<72368, 72440>>,
       <<72448, 72457>>, <<72704, 72712>>, <<72714, 72758>>,
       <<72760, 72773>>, <<72784, 72812>>, <<72816, 72847>>,
       <<72850, 72871>>, <<72873, 72886>>, <<72960, 72966>>,
       <<72968, 72969>>, <<72971, 73014>>, <<73018, 73018>>,
       <<73020, 73021>>, <<73023, 73031>>, <<73040, 73049>>,
       <<73056, 73061>>, <<73063, 73064>>, <<73066, 73102>>,
       <<73104, 73105>>, <<73107, 73112>>, <<73120, 73129>>,
       <<73440, 73464>>, <<73472, 73488>>, <<73490, 73530>>,
       <<73534, 73561>>, <<73648, 73648>>, <<73664, 73713>>,
       <<73727, 74649>>, <<74752, 74862>>, <<74864, 74868>>,
       <<74880, 75075>>, <<77712, 77810>>, <<77824, 78895>>,
       <<78912, 78933>>, <<82944, 83526>>, <<92160, 92728>>,
       <<92736, 92766>>, <<92768, 92777>>, <<92782, 92862>>,
       <<92864, 92873>>, <<92880, 92909>>, <<92912, 92917>>,
       <<92928, 92997>>, <<93008, 93017>>, <<93019, 93025>>,
       <<93027, 93047>>, <<93053, 93071>>, <<93760, 93850>>,
       <<93952, 94026>>, <<94031, 94087>>, <<94095, 94111>>,
       <<94176, 94180>>, <<94192, 94193>>, <<94208, 100343>>,
       <<100352, 101589>>, <<101632, 101640>>, <<110576, 110579>>,
       <<110581, 110587>>, <<110589, 110590>>, <<110592, 110882>>,
       <<110898, 110898>>, <<110928, 110930>>, <<110933, 110933>>,
       <<110948, 110951>>, <<110960, 111355>>, <<113664, 113770>>,
       <<113776, 113788>>, <<113792, 113800>>, <<113808, 113817>>,
       <<113820, 113823>>, <<118528, 118573>>, <<118576, 118598>>,
       <<118608, 118723>>, <<118784, 119029>>, <<119040, 119078>>,
       <<119081, 119154>>, <<119163, 119274>>, <<119296, 119365>>,
       <<119488, 119507>>, <<119520, 119539>>, <<119552, 119638>>,
       <<119648, 119672>>, <<119808, 119892>>, <<119894, 119964>>,
       <<119966, 119967>>, <<119970, 119970>>, <<119973, 119974>>,
       <<119977, 119980>>, <<119982, 119993>>, <<119995, 119995>>,
       <<119997, 120003>>, <<120005, 120069>>, <<120071, 120074>>,
       <<120077, 120084>>, <<120086, 120092>>, <<120094, 120121>>,
       <<120123, 120126>>, <<120128, 120132>>, <<120134, 120134>>,
       <<120138, 120144>>, <<120146, 120485>>, <<120488, 120779>>,
       <<120782, 121483>>, <<121499, 121503>>, <<121505, 121519>>,
       <<122624, 122654>>, <<122661, 122666>>, <<122880, 122886>>,
       <<122888, 122904>>, <<122907, 122913>>, <<122915, 122916>>,
       <<122918, 122922>>, <<122928, 122989>>, <<123023, 123023>>,
       <<123136, 123180>>, <<123184, 123197>>, <<123200, 123209>>,
       <<123214, 123215>>, <<123536, 123566>>, <<123584, 123641>>,
       <<123647, 123647>>, <<124112, 124153>>, <<124896, 124902>>,
       <<124904, 124907>>, <<124909, 124910>>, <<124912, 124926>>,
       <<124928, 125124>>, <<125127, 125142>>, <<125184, 125259>>,
       <<125264, 125273>>, <<125278, 125279>>, <<126065, 126132>>,
       <<126209, 126269>>, <<126464, 126467>>, <<126469, 126495>>,
       <<126497, 126498>>, <<126500, 126500>>, <<126503, 126503>>,
       <<126505, 126514>>, <<126516, 126519>>, <<126521, 126521>>,
       <<126523, 126523>>, <<126530, 126530>>, <<126535, 126535>>,
       <<126537, 126537>>, <<126539, 126539>>, <<126541, 126543>>,
       <<126545, 126546>>, <<126548, 126548>>, <<126551, 126551>>,
       <<126553, 126553>>, <<126555, 126555>>, <<126557, 126557>>,
       <<126559, 126559>>, <<126561, 126562>>, <<126564, 126564>>,
       <<126567, 126570>>, <<126572, 126578>>, <<126580, 126583>>,
       <<126585, 126588>>, <<126590, 126590>>, <<126592, 126601>>,
       <<126603, 126619>>, <<126625, 126627>>, <<126629, 126633>>,
       <<126635, 126651>>, <<126704, 126705>>, <<126976, 127019>>,
       <<127024, 127123>>, <<127136, 127150>>, <<127153, 127167>>,
       <<127169, 127183>>, <<127185, 127221>>, <<127232, 127405>>,
       <<127462, 127490>>, <<127504, 127547>>, <<127552, 127560>>,
       <<127568, 127569>>, <<127584, 127589>>, <<127744, 128727>>,
       <<128732, 128748>>, <<128752, 128764>>, <<128768, 128886>>,
       <<128891, 128985>>, <<128992, 129003>>, <<129008, 129008>>,
       <<129024, 129035>>, <<129040, 129095>>, <<129104, 129113>>,
       <<129120, 129159>>, <<129168, 129197>>, <<129200, 129201>>,
       <<129280, 129619>>, <<129632, 129645>>, <<129648, 129660>>,
       <<129664, 129672>>, <<129680, 129725>>, <<129727, 129733>>,
       <<129742, 129755>>, <<129760, 129768>>, <<129776, 129784>>,
       <<129792, 129938>>, <<129940, 129994>>, <<130032, 130041>>,
       <<131072, 173791>>, <<173824, 177977>>, <<177984, 178205>>,
       <<178208, 183969>>, <<183984, 191456>>, <<194560, 195101>>,
       <<196608, 201546>>, <<201552, 205743>>, <<917760, 917999>> >>

InRanges(r, T) == \E i \in DOMAIN T : T[i][1] <= r /\ r <= T[i][2]

\* strconv.IsPrint
IsPrint(r) ==
    IF r < 128 THEN r >= 32 /\ r <= 126 ELSE InRanges(r, PrintRanges)

\* The n hexadecimal digits of v
Hex(v, n) == [i \in 1..n |-> HexDigit((v \div 16^(n - i)) % 16)]

\* strconv.Quote of one rune: the quote and the backslash after a backslash, a
\* printable rune as it is, the others as their escapes.
QuoteRune(r) ==
    CASE r = 34 -> <<92, 34>>
      [] r = 92 -> <<92, 92>>
      [] r = 7  -> <<92, 97>>
      [] r = 8  -> <<92, 98>>
      [] r = 12 -> <<92, 102>>
      [] r = 10 -> <<92, 110>>
      [] r = 13 -> <<92, 114>>
      [] r = 9  -> <<92, 116>>
      [] r = 11 -> <<92, 118>>
      [] OTHER  ->
            IF IsPrint(r) THEN <<r>>
            ELSE IF r < 128 THEN <<92, 120>> \o Hex(r, 2)
            ELSE IF r < 65536 THEN <<92, 117>> \o Hex(r, 4)
            ELSE <<92, 85>> \o Hex(r, 8)

\* StringLiteral.String(): strconv.Quote of the value
Quote(s) == <<34>> \o Flatten([i \in DOMAIN s |-> QuoteRune(s[i])]) \o <<34>>

\* Key.String(): an identifier is its value, a string is quoted
KeyString(key) == IF key.k = "ident" THEN key.v ELSE Quote(key.v)

Spaces(n) == [i \in 1..n |-> 32]

\* formatter.writeIndent
writeIndent(o, depth) == Spaces(o.indent * depth)

\* "# " + comment.Value
CommentText(c) == <<35, 32>> \o c.value

FRes(err, s) == [err |-> err, s |-> s]

writeMultilineString(s) == tripleQuote \o <<10>> \o s \o tripleQuote

RECURSIVE writeNode(_, _, _)
RECURSIVE writePrettyArrayFrom(_, _, _, _, _)
RECURSIVE writeCompactArrayFrom(_, _, _, _, _)
RECURSIVE writePrettyObjectFrom(_, _, _, _, _)
RECURSIVE writeCompactObjectFrom(_, _, _, _, _)

\* The separator written after the i-th of n siblings in pretty mode.
siblingComma(o, i, n) ==
    IF o.useFieldCommas /\ (i < n \/ o.useTrailingCommas) THEN <<44>> ELSE <<>>

\* The loop of writePrettyArray from the i-th element on, acc the text written
\* so far, depth the f.depth after its increment.
writePrettyArrayFrom(elems, i, o, depth, acc) ==
    IF i > Len(elems) THEN FRes("", acc)
    ELSE LET r == writeNode(elems[i], o, depth) IN
         IF r.err # "" THEN r
         ELSE writePrettyArrayFrom(elems, i + 1, o, depth,
                acc \o <<10>> \o writeIndent(o, depth) \o r.s
                    \o siblingComma(o, i, Len(elems)))

writePrettyArray(arr, o, depth) ==
    LET r == writePrettyArrayFrom(arr.elems, 1, o, depth + 1, <<>>) IN
    IF r.err # "" THEN r
    ELSE FRes("", r.s \o <<10>> \o writeIndent(o, depth))

writeCompactArrayFrom(elems, i, o, depth, acc) ==
    IF i > Len(elems) THEN FRes("", acc)
    ELSE LET r == writeNode(elems[i], o, depth) IN
         IF r.err # "" THEN r
         ELSE writeCompactArrayFrom(elems, i + 1, o, depth,
                acc \o (IF i > 1 THEN <<44>> ELSE <<>>) \o r.s)

writeCompactArray(arr, o, depth) == writeCompactArrayFrom(arr.elems, 1, o, depth, <<>>)

writeArray(arr, o, depth) ==
    LET r == IF Len(arr.elems) = 0 THEN FRes("", <<>>)
             ELSE IF o.inlineArrays THEN writeCompactArray(arr, o, depth)
             ELSE IF o.indent # 0 THEN writePrettyArray(arr, o, depth)
             ELSE writeCompactArray(arr, o, depth)
    IN  IF r.err # "" THEN r ELSE FRes("", <<91>> \o r.s \o <<93>>)

writePairPrefix(i, pair, o, depth) ==
    LET numNewlines == IF i = 1 \/ pair.nl = 0 THEN 1 ELSE pair.nl IN
    [j \in 1..numNewlines |-> 10]
    \o Flatten([j \in DOMAIN pair.head |->
                  writeIndent(o, depth) \o CommentText(pair.head[j]) \o <<10>>])
    \o writeIndent(o, depth)

writePairKeyValue(pair, o, depth) ==
    LET r == writeNode(pair.value, o, depth) IN
    IF r.err # "" THEN r
    ELSE FRes("", KeyString(pair.key) \o <<58, 32>> \o r.s)

writePairSuffix(i, pairCount, pair, o) ==
    siblingComma(o, i, pairCount)
    \o Flatten([j \in DOMAIN pair.line |-> <<32>> \o CommentText(pair.line[j])])

writePairFootComments(pair, o, depth) ==
    Flatten([j \in DOMAIN pair.foot |->
               <<10>> \o writeIndent(o, depth) \o CommentText(pair.foot[j])])

\* The loop of writePrettyObject from the i-th pair on, depth the f.depth
\* after its increment.
writePrettyObjectFrom(pairs, i, o, depth, acc) ==
    IF i > Len(pairs) THEN FRes("", acc)
    ELSE LET r == writePairKeyValue(pairs[i], o, depth) IN
         IF r.err # "" THEN r
         ELSE writePrettyObjectFrom(pairs, i + 1, o, depth,
                acc \o writePairPrefix(i, pairs[i], o, depth) \o r.s
                    \o writePairSuffix(i, Len(pairs), pairs[i], o)
                    \o writePairFootComments(pairs[i], o, depth))

writePrettyObject(obj, o, depth) ==
    LET r == writePrettyObjectFrom(obj.pairs, 1, o, depth + 1, <<>>) IN
    IF r.err # "" THEN r
    ELSE FRes("", r.s \o (IF Len(obj.pairs) > 0 THEN <<10>> ELSE <<>>)
                      \o writeIndent(o, depth))

writeCompactObjectFrom(pairs, i, o, depth, acc) ==
    IF i > Len(pairs) THEN FRes("", acc)
    ELSE LET r == writeNode(pairs[i].value, o, depth) IN
         IF r.err # "" THEN r
         ELSE writeCompactObjectFrom(pairs, i + 1, o, depth,
                acc \o (IF i > 1 THEN <<44>> ELSE <<>>)
                    \o KeyString(pairs[i].key) \o <<58>> \o r.s)

writeCompactObject(obj, o, depth) ==
    writeCompactObjectFrom(obj.pairs, 1, o, depth, <<>>)

writeObject(obj, o, depth) ==
    LET r == IF Len(obj.pairs) = 0 THEN FRes("", <<>>)
             ELSE IF o.indent # 0 THEN writePrettyObject(obj, o, depth)
             ELSE writeCompactObject(obj, o, depth)
    IN  IF r.err # "" THEN r ELSE FRes("", <<123>> \o r.s \o <<125>>)

\* formatter.writeNode on an expression, at nesting f.depth = depth
writeNode(n, o, depth) ==
    CASE n.k = "object" -> writeObject(n, o, depth)
      [] n.k = "array"  -> writeArray(n, o, depth)
      [] n.k = "string" ->
            IF o.inlineStrings \/ o.indent = 0 \/ ~ContainsRune(n.v, 10)
               \/ Contains(n.v, tripleQuote)
            THEN FRes("", Quote(n.v))
            ELSE FRes("", writeMultilineString(n.v))
      [] n.k \in {"int", "float"} -> FRes("", n.lit)
      [] n.k = "bool"   -> FRes("", IF n.v THEN <<116, 114, 117, 101>>
                                    ELSE <<102, 97, 108, 115, 101>>)
      [] n.k = "null"   -> FRes("", <<110, 117, 108, 108>>)
      [] OTHER          -> FRes("unsupported node type for formatting", <<>>)

\* Encoder.Encode: marshalValue, then format
Encode(T, v, o) ==
    LET m == marshalValue(T, v, {}, <<>>) IN
    IF m.err # "" THEN [err |-> m.err, text |-> <<>>]
    ELSE LET f == writeNode(m.node, o, 0) IN [err |-> f.err, text |-> f.s]

----------------------------------------------------------------------------
\* Marshal, then Unmarshal into a fresh target of the value's type
\* (src/maml.go; FuzzRoundTrip in src/unnamed/part_018)

MaxStrLen == 3
MaxElems == 2

\* The runes of the strings encoded:  a  LF  CR  and a double quote.
RtRunes == {97, 10, 13, 34}

RtStrings(n) == UNION { [1..m -> RtRunes] : m \in 0..n }

StrV(s) == [k |-> "string", v |-> s]

\* The keys of the maps encoded:  k  -  1  and the empty key.
RtKeys == { <<107>>, <<45>>, <<49>>, <<>> }

\* The values encoded, each with its static type.  Among them 2^63 as a
\* uint64, the floats 1.5 and -100, a slice whose one element is an empty
\* slice, of its own or cut from the slice itself (s[0] = s[:0]), and a map
\* with integer keys.
RtValues ==
    { [t |-> TString, v |-> StrV(s)] : s \in RtStrings(MaxStrLen) }
    \cup { [t |-> TInt(64), v |-> [k |-> "int", v |-> n]] : n \in {0 - 12, 0, 7} }
    \cup { [t |-> TUint, v |-> [k |-> "uint", v |-> n]] : n \in {0, 7} }
    \cup { [t |-> TBool, v |-> [k |-> "bool", v |-> b]] : b \in BOOLEAN }
    \cup { [t |-> TUint, v |-> [k |-> "uint", v |-> TextTwoTo63, big |-> TRUE]] }
    \cup { [t |-> TFloat, v |-> [k |-> "float", f |-> f]] :
           f \in { [k |-> "fin", neg |-> FALSE, d |-> <<1, 5>>, dp |-> 1],
                   [k |-> "fin", neg |-> TRUE, d |-> <<1>>, dp |-> 3] } }
    \cup { [t |-> TSlice(TAny),
            v |-> [k |-> "slice",
                   elems |-> <<[k |-> "any", t |-> TSlice(TAny), v |-> e]>>]] :
           e \in { [k |-> "slice", elems |-> <<>>],
                   [k |-> "slice", elems |-> <<>>, at |-> <<>>] } }
    \cup { [t |-> TMapOf(TInt(64), TString), v |-> [k |-> "map", m |-> <<>>]] }
    \cup { [t |-> TPtr(TString), v |-> NilV] }
    \cup { [t |-> TPtr(TString), v |-> [k |-> "ptr", v |-> StrV(s)]] :
           s \in RtStrings(1) }
    \cup { [t |-> TSlice(TString), v |-> NilV] }
    \cup { [t |-> TSlice(TString),
            v |-> [k |-> "slice", elems |-> [i \in 1..m |-> StrV(ss[i])]]] :
           m \in 0..MaxElems, ss \in [1..MaxElems -> RtStrings(1)] }
    \cup { [t |-> TSlice(TString), v |-> [k |-> "slice", elems |-> <<StrV(s)>>]] :
           s \in RtStrings(MaxStrLen) }
    \cup { [t |-> TMap(TString), v |-> NilV] }
    \cup { [t |-> TMap(TString),
            v |-> [k |-> "map", m |-> [x \in K |-> StrV(s)]]] :
           K \in SUBSET RtKeys, s \in RtStrings(1) }
    \cup { [t |-> TMap(TString),
            v |-> [k |-> "map", m |-> [x \in {<<107>>} |-> StrV(s)]]] :
           s \in RtStrings(MaxStrLen) }

\* The options of the encoder: Indent(0) or the default, InlineStrings,
\* UseFieldCommas.
RtOptions ==
    [indent : {0, defaultIndent}, inlineStrings : BOOLEAN, inlineArrays : {FALSE},
     useFieldCommas : BOOLEAN, useTrailingCommas : {FALSE}]

InitRT ==
    /\ rtval \in RtValues
    /\ rtopts \in RtOptions
    /\ rtstage = "start"
    /\ rtenc = [err |-> "", text |-> <<>>]
    /\ rtout = [err |-> "", v |-> NilV]
    /\ LexIdle(<<>>)
    /\ ParIdle
    /\ EncIdle
    /\ DecIdle
    /\ FldIdle
    /\ FnIdle

\* Marshal(in, opts...)
Marshal ==
    /\ rtstage = "start"
    /\ rtenc' = Encode(rtval.t, rtval.v, rtopts)
    /\ rtstage' = IF rtenc'.err # "" THEN "done" ELSE "encoded"
    /\ UNCHANGED <<rtval, rtopts, rtout, lexVars, parVars, notRtVars>>

\* Unmarshal(in, out) up to Decoder.Decode's call of Parse: the lexer and the
\* parser are made for the text, comments not parsed.
UnmarshalStart ==
    /\ rtstage = "encoded"
    /\ src' = rtenc.text
    /\ toks' = LexAll(rtenc.text)
    /\ pmode' = FALSE
    /\ cur' = NewParserCur(toks', FALSE)
    /\ pc' = "parse"
    /\ rtstage' = "decoding"
    /\ UNCHANGED <<lx, tok, tokOff, prevPos, ntok, eofSeen, perrs, stack, ret, doc,
                   rets, rtval, rtopts, rtenc, rtout, notRtVars>>

\* Decoder.Decode after Parse: the parse errors if there are any, else
\* decodeDocument into the fresh target.
UnmarshalFinish ==
    /\ rtstage = "decoding"
    /\ pc = "done"
    /\ rtout' = IF perrs # <<>> THEN [err |-> "parse errors", v |-> Zero(rtval.t)]
                ELSE IF doc.stmts = <<>> THEN [err |-> "", v |-> Zero(rtval.t)]
                ELSE LET r == decodeDocument(doc.stmts[1].expr, rtval.t, 0) IN
                     [err |-> r.err, v |-> r.v]
    /\ rtstage' = "done"
    /\ UNCHANGED <<rtval, rtopts, rtenc, lexVars, parVars, notRtVars>>

NextRT ==
    \/ Marshal
    \/ UnmarshalStart
    \/ ParseStart
    \/ ParseExpressionLeaf
    \/ ParseArrayOpen
    \/ ParseArrayElement
    \/ ParseObjectOpen
    \/ ParseObjectLoop
    \/ ParsePairValue
    \/ ParseFinish
    \/ UnmarshalFinish

\* The formatter writes no token that parseExpression has no function for, so
\* the step for such a token is not among the steps of the round trip.
SpecRT == InitRT /\ [][NextRT]_vars

\* C1: whenever Marshal accepts a value, Unmarshal of the text into a fresh
\* target of the value's type returns no error and the target then holds a
\* value equal to the one encoded.
C1_RoundTrip ==
    (rtstage = "done" /\ rtenc.err = "")
        => (rtout.err = "" /\ rtout.v = rtval.v)

----------------------------------------------------------------------------
\* Unmarshal of a document into an empty interface, Marshal of the value, and
\* the parse of the text Marshal returns (TestGolden, FuzzRoundTrip)

MaxDocChunks == 4

\* The pieces of the documents:  {  }  [  ]  a:  "b "  "1 "  "null "  the
\* strings "x" and "\n\"" (written with escapes), each followed by a space,
\* and LF.
DocChunks ==
    { <<123>>, <<125>>, <<91>>, <<93>>, <<97, 58>>, <<98, 32>>, <<49, 32>>,
      <<110, 117, 108, 108, 32>>, <<34, 120, 34, 32>>,
      <<34, 92, 110, 92, 34, 34, 32>>, <<10>> }

DocInputs == { Flatten(cs) : cs \in SeqsUpTo(DocChunks, MaxDocChunks) }

\* The options Marshal is given: none, or Indent(0).
DocOptions ==
    [indent : {0, defaultIndent}, inlineStrings : {FALSE}, inlineArrays : {FALSE},
     useFieldCommas : {FALSE}, useTrailingCommas : {FALSE}]

InitDoc ==
    /\ src \in DocInputs
    /\ LexIdle(src)
    /\ ParIdle
    /\ pin \in [stage : {"start"}, opts : DocOptions]
    /\ pout = [done |-> FALSE]
    /\ EncIdle
    /\ DecIdle
    /\ FldIdle
    /\ RtIdle

\* Decoder.Decode up to its call of Parse: a lexer and a parser are made for
\* the text, comments not parsed.  The text is the document at first and the
\* text Marshal returned afterwards.
DocParse ==
    /\ pin.stage \in {"start", "encoded"}
    /\ pin' = [pin EXCEPT !.stage = IF pin.stage = "start" THEN "decode" ELSE "reparse"]
    /\ src' = IF pin.stage = "start" THEN src ELSE pin.enc.text
    /\ toks' = LexAll(src')
    /\ cur' = NewParserCur(toks', FALSE)
    /\ perrs' = <<>>
    /\ stack' = <<>>
    /\ ret' = Nil
    /\ pc' = "parse"
    /\ doc' = [head |-> <<>>, stmts |-> <<>>]
    /\ rets' = <<>>
    /\ pmode' = FALSE
    /\ UNCHANGED <<lx, tok, tokOff, prevPos, ntok, eofSeen, pout, encVars, decVars,
                   fldVars, rtVars>>

\* Decoder.Decode after Parse, into var v any
DecodeAny(d, errs) ==
    IF errs # <<>> THEN [err |-> "parse errors", v |-> NilV]
    ELSE IF d.stmts = <<>> THEN [err |-> "", v |-> NilV]
    ELSE LET r == decodeDocument(d.stmts[1].expr, TAny, 0) IN
         [err |-> r.err, v |-> r.v]

\* The document is parsed: Unmarshal returns.  An ill-formed document, or one
\* that does not decode, ends the run.
DocUnmarshal ==
    /\ pin.stage = "decode"
    /\ pc = "done"
    /\ pin' = LET dec == DecodeAny(doc, perrs) IN
              [stage |-> IF dec.err # "" THEN "failed" ELSE "decoded",
               opts |-> pin.opts, first |-> doc, dec |-> dec]
    /\ UNCHANGED <<pout, notFnVars>>

\* What the run holds once Marshal has returned enc
Marshalled(p, enc) ==
    [stage |-> IF enc.err # "" THEN "failed" ELSE "encoded",
     opts |-> p.opts, first |-> p.first, dec |-> p.dec, enc |-> enc]

\* Marshal(v, opts...) of the value Unmarshal stored
DocMarshal ==
    /\ pin.stage = "decoded"
    /\ pin' = Marshalled(pin, Encode(TAny, pin.dec.v, pin.opts))
    /\ UNCHANGED <<pout, notFnVars>>

\* The text of Marshal is parsed.
ReparseDone ==
    /\ pin.stage = "reparse"
    /\ pc = "done"
    /\ ~pout.done
    /\ pout' = [done |-> TRUE, doc |-> doc, errs |-> perrs]
    /\ UNCHANGED <<pin, notFnVars>>

NextDoc ==
    \/ DocParse
    \/ ParseStart
    \/ ParseExpressionNoPrefix
    \/ ParseExpressionLeaf
    \/ ParseArrayOpen
    \/ ParseArrayElement
    \/ ParseObjectOpen
    \/ ParseObjectLoop
    \/ ParsePairValue
    \/ ParseFinish
    \/ DocUnmarshal
    \/ DocMarshal
    \/ ReparseDone

SpecDoc == InitDoc /\ [][NextDoc]_vars

\* Structural equality of two expressions: the same kind of node with the
\* same value; arrays element by element; objects as sets of pairs, a key
\* being its text whether it is written bare or quoted.
RECURSIVE StructEq(_, _)
StructEq(a, b) ==
    IF a.k # b.k THEN FALSE
    ELSE CASE a.k = "array" ->
                /\ Len(a.elems) = Len(b.elems)
                /\ \A i \in DOMAIN a.elems : StructEq(a.elems[i], b.elems[i])
           [] a.k = "object" ->
                /\ \A i \in DOMAIN a.pairs : \E j \in DOMAIN b.pairs :
                      /\ a.pairs[i].key.v = b.pairs[j].key.v
                      /\ StructEq(a.pairs[i].value, b.pairs[j].value)
                /\ \A j \in DOMAIN b.pairs : \E i \in DOMAIN a.pairs :
                      /\ a.pairs[i].key.v = b.pairs[j].key.v
                      /\ StructEq(a.pairs[i].value, b.pairs[j].value)
           [] a.k \in {"string", "ident", "int", "bool"} -> a.v = b.v
           [] a.k = "float" -> a.lit = b.lit
           [] OTHER -> TRUE

\* Structural equality of two documents
DocEq(d1, d2) ==
    /\ Len(d1.stmts) = Len(d2.stmts)
    /\ \A i \in DOMAIN d1.stmts : StructEq(d1.stmts[i].expr, d2.stmts[i].expr)

\* C15: a document that parses without error decodes into an empty interface
\* and the value encodes, and the text parses without error into a document
\* structurally equal to the first.
C15_DecodeEncodeSameAst ==
    /\ (pin.stage = "failed" /\ perrs = <<>>) => FALSE
    /\ pout.done => (pout.errs = <<>> /\ DocEq(pin.first, pout.doc))

----------------------------------------------------------------------------
\* format of an expression the parser returned: tryCustomUnmarshal formats
\* the expression of the document into a bytes.Buffer, whose Write never
\* returns an error, before it calls UnmarshalMAML.

MaxFmtChunks == 3

FmtInputs == { Flatten(cs) : cs \in SeqsUpTo(DocChunks, MaxFmtChunks) }

FmtOptions ==
    [indent : {0, defaultIndent}, inlineStrings : BOOLEAN, inlineArrays : BOOLEAN,
     useFieldCommas : BOOLEAN, useTrailingCommas : {FALSE}]

InitFmt ==
    /\ src \in FmtInputs
    /\ LexIdle(src)
    /\ ParIdle
    /\ pin \in [stage : {"start"}, opts : FmtOptions]
    /\ pout = [done |-> FALSE]
    /\ EncIdle
    /\ DecIdle
    /\ FldIdle
    /\ RtIdle

\* f.format(expr) on the expression of a document parsed without error
FormatParsed ==
    /\ pin.stage = "decode"
    /\ pc = "done"
    /\ perrs = <<>>
    /\ doc.stmts # <<>>
    /\ ~pout.done
    /\ pout' = [done |-> TRUE, res |-> writeNode(doc.stmts[1].expr, pin.opts, 0)]
    /\ UNCHANGED <<pin, notFnVars>>

NextFmt ==
    \/ DocParse
    \/ ParseStart
    \/ ParseExpressionNoPrefix
    \/ ParseExpressionLeaf
    \/ ParseArrayOpen
    \/ ParseArrayElement
    \/ ParseObjectOpen
    \/ ParseObjectLoop
    \/ ParsePairValue
    \/ ParseFinish
    \/ FormatParsed

SpecFmt == InitFmt /\ [][NextFmt]_vars

\* C16: format of an expression that an error-free parse returned, into a
\* writer whose writes succeed, returns no error, whatever the options.
C16_FormatNeverFails == pout.done => pout.res.err = ""

----------------------------------------------------------------------------
\* The key of a pair that marshalMap makes for a map key

MaxKeyLen == 3

\* The runes of the keys:  a  1  -  .  e  +  _  and a space.
KeyRunes == {97, 49, 45, 46, 101, 43, 95, 32}

\* The keys: the short strings, and the reserved words.
KeyInputs ==
    SeqsUpTo(KeyRunes, MaxKeyLen)
        \cup { <<116, 114, 117, 101>>, <<102, 97, 108, 115, 101>>,
               <<110, 117, 108, 108>> }

InitKey ==
    /\ pin \in [key : KeyInputs]
    /\ pout = [done |-> FALSE]
    /\ LexIdle(<<>>)
    /\ ParIdle
    /\ EncIdle
    /\ DecIdle
    /\ FldIdle
    /\ RtIdle

\* marshalMap on the key: the node of the key, and the text the formatter
\* writes for it.
MarshalKey ==
    /\ ~pout.done
    /\ pout' = LET n == keyNode(pin.key) IN
               [done |-> TRUE, node |-> n, text |-> KeyString(n)]
    /\ UNCHANGED <<pin, notFnVars>>

NextKey ==
    \/ MarshalKey

SpecKey == InitKey /\ [][NextKey]_vars

\* identifier = 1*( ALPHA / DIGIT / "_" / "-" )
MatchesIdentifier(s) == s # <<>> /\ \A i \in DOMAIN s : isIdentifierChar(s[i])

IsReservedWord(s) ==
    s \in { <<116, 114, 117, 101>>, <<102, 97, 108, 115, 101>>, <<110, 117, 108, 108>> }

NumberWithLeadingHyphen(s) == s # <<>> /\ s[1] = 45 /\ ParseAsNumber(s).ok

\* C17: the key is emitted bare exactly when it matches the identifier ABNF,
\* is no reserved word and is no number with a leading hyphen; every other key
\* is emitted as a quoted string.
C17_BareKeyIffIdentifier ==
    pout.done =>
        /\ pout.node.k = "ident" <=>
              (/\ MatchesIdentifier(pin.key)
               /\ ~IsReservedWord(pin.key)
               /\ ~NumberWithLeadingHyphen(pin.key))
        /\ pout.node.k # "ident" => pout.text = Quote(pin.key)

----------------------------------------------------------------------------
\* marshalFloat, and the tokens the lexer makes of the literal
\*
\* A float is NaN, an infinity, or a finite value given by its sign and the
\* shortest decimal digits d that read back as the value, with the decimal
\* point before the digit of index dp (the value is 0.d1d2... * 10^dp; zero
\* has no digits and dp = 0), as strconv's shortest conversion returns them.

MaxFloatDigits == 2
MaxFloatExp == 8

FloatDigits == {1, 5}

FloatInputs ==
    { [k |-> "nan"] }
        \cup [k : {"inf"}, neg : BOOLEAN]
        \cup [k : {"fin"}, neg : BOOLEAN, d : {<<>>}, dp : {0}]
        \cup [k : {"fin"}, neg : BOOLEAN,
              d : SeqsUpTo(FloatDigits, MaxFloatDigits) \ {<<>>},
              dp : (3 - MaxFloatExp)..MaxFloatExp]

InitFloat ==
    /\ pin \in FloatInputs
    /\ pout = [done |-> FALSE]
    /\ LexIdle(<<>>)
    /\ ParIdle
    /\ EncIdle
    /\ DecIdle
    /\ FldIdle
    /\ RtIdle

\* marshalFloat on the value, and the lexer on the literal of the node
MarshalFloat ==
    /\ ~pout.done
    /\ pout' = LET m == marshalFloat(pin) IN
               [done |-> TRUE, err |-> m.err, lit |-> m.node.lit,
                toks |-> LexAll(m.node.lit)]
    /\ UNCHANGED <<pin, notFnVars>>

NextFloat ==
    \/ MarshalFloat

SpecFloat == InitFloat /\ [][NextFloat]_vars

\* C18: the literal of a float that marshalFloat accepts is lexed as one
\* FLOAT token, the whole literal, followed by EOF.
C18_FloatLexesAsFloat ==
    (pout.done /\ pout.err = "") =>
        /\ Len(pout.toks) = 2
        /\ pout.toks[1].type = "FLOAT"
        /\ pout.toks[1].lit = pout.lit
        /\ pout.toks[2].type = "EOF"

----------------------------------------------------------------------------
\* The token NextToken makes of a run of number and identifier runes

MaxRunLen == 4

\* The runes of the texts:  0  1  -  .  e  +  a  and a space.
RunRunes == {48, 49, 45, 46, 101, 43, 97, 32}

RunInputs == SeqsUpTo(RunRunes, MaxRunLen)

InitRun ==
    /\ pin \in [text : RunInputs]
    /\ pout = [done |-> FALSE]
    /\ LexIdle(<<>>)
    /\ ParIdle
    /\ EncIdle
    /\ DecIdle
    /\ FldIdle
    /\ RtIdle

\* lexer.New on the text and NextToken up to EOF
LexRun ==
    /\ ~pout.done
    /\ pout' = [done |-> TRUE, toks |-> LexAll(pin.text)]
    /\ UNCHANGED <<pin, notFnVars>>

NextRun ==
    \/ LexRun

SpecRun == InitRun /\ [][NextRun]_vars

\* The number ABNF, as a grammar:
\*   number = [ "-" ] int [ frac ] [ exp ]
\*   int    = "0" / ( digit1-9 *DIGIT )
\*   frac   = "." 1*DIGIT
\*   exp    = ( "e" / "E" ) [ "-" / "+" ] 1*DIGIT
AllDigits(s) == s # <<>> /\ \A i \in DOMAIN s : 48 <= s[i] /\ s[i] <= 57

AbnfInt(s) == AllDigits(s) /\ (Len(s) = 1 \/ s[1] # 48)

AbnfFrac(s) == Len(s) >= 2 /\ s[1] = 46 /\ AllDigits(Tail(s))

AbnfExp(s) ==
    /\ Len(s) >= 2
    /\ s[1] \in {101, 69}
    /\ \/ AllDigits(Tail(s))
       \/ Len(s) >= 3 /\ s[2] \in {43, 45} /\ AllDigits(Tail(Tail(s)))

\* s is a number whose fraction is of length nf and whose exponent is of
\* length ne (0 for a part that is absent)
AbnfNumber(s, nf, ne) ==
    LET body == IF s # <<>> /\ s[1] = 45 THEN Tail(s) ELSE s
        ni   == Len(body) - nf - ne
    IN  /\ ni >= 1
        /\ AbnfInt(SubSeq(body, 1, ni))
        /\ nf > 0 => AbnfFrac(SubSeq(body, ni + 1, ni + nf))
        /\ ne > 0 => AbnfExp(SubSeq(body, ni + nf + 1, Len(body)))

IsAbnfInteger(s) == AbnfNumber(s, 0, 0)

IsAbnfFloat(s) ==
    \E nf, ne \in 0..Len(s) : nf + ne > 0 /\ nf + ne < Len(s) /\ AbnfNumber(s, nf, ne)

\* The longest prefix of s made of the runes of a number-or-identifier run
RECURSIVE RunPrefix(_)
RunPrefix(s) ==
    IF s # <<>> /\ (isIdentifierChar(s[1]) \/ s[1] \in {46, 101, 69, 43})
    THEN <<s[1]>> \o RunPrefix(Tail(s))
    ELSE <<>>

\* C19: the token of a run is INT exactly when the run matches the number ABNF
\* without fraction and exponent, FLOAT exactly when it matches with a
\* fraction or an exponent, and IDENT otherwise; a run that starts with a digit
\* is read to its end as one token.
C19_NumberOrIdentifier ==
    (pout.done /\ pin.text # <<>> /\ isIdentifierChar(pin.text[1])) =>
        LET t == pout.toks[1] IN
        /\ t.type \in {"INT", "FLOAT", "IDENT"}
        /\ t.type = "INT" <=> IsAbnfInteger(t.lit)
        /\ t.type = "FLOAT" <=> IsAbnfFloat(t.lit)
        /\ isDigit(pin.text[1]) => t.lit = RunPrefix(pin.text)

\* The text 1e- is read as one IDENT token.
C19_Witness ==
    /\ pout.done
    /\ pin.text = <<49, 101, 45>>
    /\ pout.toks[1].type = "IDENT"
    /\ pout.toks[1].lit = <<49, 101, 45>>

----------------------------------------------------------------------------
\* mapInt on an integer literal and a signed integer target that holds a value

MaxOver == 2

IntWidths == {8, 16, 32, 64}

\* The values of the literals: those within MaxOver of the limits of 8 and of
\* 16 bits, and those next to zero.
IntValues ==
    UNION { ((0 - 2^(w - 1)) - MaxOver)..((0 - 2^(w - 1)) + MaxOver)
              \cup ((2^(w - 1) - 1) - MaxOver)..((2^(w - 1) - 1) + MaxOver) :
            w \in {8, 16} }
        \cup (0 - MaxOver)..MaxOver

\* What the target holds before the call.
OldValues == {0, 5}

InitInt ==
    /\ pin \in [v : IntValues, bits : IntWidths, old : OldValues]
    /\ pout = [done |-> FALSE]
    /\ LexIdle(<<>>)
    /\ ParIdle
    /\ EncIdle
    /\ DecIdle
    /\ FldIdle
    /\ RtIdle

\* decodeState.mapInt(i, rv)
MapInt ==
    /\ ~pout.done
    /\ pout' = LET r == mapIntInto([k |-> "int", v |-> pin.v, lit |-> FormatInt(pin.v)],
                                   TInt(pin.bits), [k |-> "int", v |-> pin.old])
               IN  [done |-> TRUE, err |-> r.err, arg |-> r.arg, type |-> r.type,
                    target |-> r.v]
    /\ UNCHANGED <<pin, notFnVars>>

NextInt ==
    \/ MapInt

SpecInt == InitInt /\ [][NextInt]_vars

\* v is in [-2^(w-1), 2^(w-1) - 1]; the values of the model are within the
\* limits of 32 and of 64 bits.
InSignedRange(v, w) ==
    w >= 32 \/ ((0 - 2^(w - 1)) <= v /\ v <= 2^(w - 1) - 1)

\* C20: mapInt stores the value of the literal exactly when it is within the
\* limits of the width of the target; otherwise it returns the overflow error
\* with the value and the type of the target, and the target holds what it
\* held before.
C20_SignedOverflow ==
    pout.done =>
        IF InSignedRange(pin.v, pin.bits)
        THEN /\ pout.err = ""
             /\ pout.target = [k |-> "int", v |-> pin.v]
        ELSE /\ pout.err = "integer value overflows"
             /\ pout.arg = pin.v
             /\ pout.type = TInt(pin.bits)
             /\ pout.target = [k |-> "int", v |-> pin.old]

\* An 8-bit target that holds 5 is given 128: the error, and the 5 is kept.
C20_Witness ==
    /\ pout.done
    /\ pin = [v |-> 128, bits |-> 8, old |-> 5]
    /\ pout.err = "integer value overflows"
    /\ pout.target = [k |-> "int", v |-> 5]

----------------------------------------------------------------------------
\* Unmarshal of object documents into one map[string]int, one call after the
\* other

MaxDecodes == 3
MaxMapPairs == 2

\* The loop of mapMap from pair i on, on a map that holds m: the error, and
\* what the map holds on return.
RECURSIVE mapMapIntoFrom(_, _, _, _, _)
mapMapIntoFrom(pairs, i, T, depth, m) ==
    IF i > Len(pairs) THEN [err |-> "", m |-> m]
    ELSE LET key == resolveMapKey(pairs[i].key) IN
         IF key.err # "" THEN [err |-> key.err, m |-> m]
         ELSE LET r == mapValue(pairs[i].value, T.elem, depth) IN
              IF r.err # "" THEN [err |-> r.err, m |-> m]
              ELSE mapMapIntoFrom(pairs, i + 1, T, depth, MapSet(m, key.key, r.v))

\* The map with a key of its own left out
clearMap_keepOne(m) ==
    IF DOMAIN m = {} THEN m
    ELSE LET keep == CHOOSE x \in DOMAIN m : TRUE IN [x \in {keep} |-> m[x]]

\* for _, k := range rv.MapKeys() { rv.SetMapIndex(k, reflect.Value{}) }
clearMap(m) == [x \in {} |-> m[x]]

\* mapMap on a target that holds rv, nil or a map: the error, and what the
\* target holds on return
mapMapInto(obj, T, depth, rv) ==
    IF ~StringKeys(T)
    THEN [err |-> "cannot unmarshal object into map with non-string key type",
          v |-> rv]
    ELSE LET r == mapMapIntoFrom(obj.pairs, 1, T, depth,
                                 IF rv.k = "nil" THEN <<>> ELSE clearMap(rv.m))
         IN  [err |-> r.err, v |-> [k |-> "map", m |-> r.m]]

IntV(n) == [k |-> "int", v |-> n]

KeyA == <<97>>
KeyB == <<98>>
KeyC == <<99>>

\* What the map holds before the first call: nil, nothing, or entries.
MapStarts ==
    { NilV, [k |-> "map", m |-> <<>>],
      [k |-> "map", m |-> [x \in {KeyC} |-> IntV(7)]],
      [k |-> "map", m |-> [x \in {KeyA, KeyC} |-> IntV(7)]] }

MapKeyNodes ==
    { [k |-> "ident", v |-> KeyA], [k |-> "string", v |-> KeyA],
      [k |-> "ident", v |-> KeyB] }

MapValueNodes ==
    { [k |-> "int", v |-> 1, lit |-> <<49>>], [k |-> "int", v |-> 2, lit |-> <<50>>],
      [k |-> "string", v |-> <<120>>] }

\* The objects of the documents: pairs of different keys, as the parser
\* reports an object that holds a key twice.
MapObjects ==
    { [k |-> "object", pairs |-> ps] :
        ps \in { q \in SeqsUpTo({ EmptyPair(key, val) : key \in MapKeyNodes,
                                                       val \in MapValueNodes },
                                MaxMapPairs) :
                 \A i, j \in DOMAIN q : i # j => q[i].key.v # q[j].key.v } }

InitMap ==
    /\ pin \in [m : MapStarts, n : {0}]
    /\ pout = [done |-> FALSE]
    /\ LexIdle(<<>>)
    /\ ParIdle
    /\ EncIdle
    /\ DecIdle
    /\ FldIdle
    /\ RtIdle

\* Unmarshal(doc, &m) for the document of an object: mapValue takes one
\* level of the depth and calls mapMap.
UnmarshalIntoMap ==
    /\ pin.n < MaxDecodes
    /\ \E obj \in MapObjects :
          LET r == mapMapInto(obj, TMap(TInt(64)), defaultMaxDepth - 1, pin.m) IN
          /\ pin' = [m |-> r.v, n |-> pin.n + 1]
          /\ pout' = [done |-> TRUE, err |-> r.err, obj |-> obj, before |-> pin.m]
    /\ UNCHANGED notFnVars

NextMap ==
    \/ UnmarshalIntoMap

SpecMap == InitMap /\ [][NextMap]_vars

\* C21: after a decode without error the map holds exactly the pairs of the
\* document decoded: no entry it held before is left.
C21_MapHoldsLastDocument ==
    (pout.done /\ pout.err = "") =>
        /\ DOMAIN pin.m.m = { pout.obj.pairs[i].key.v : i \in DOMAIN pout.obj.pairs }
        /\ \A i \in DOMAIN pout.obj.pairs :
              pin.m.m[pout.obj.pairs[i].key.v] = IntV(pout.obj.pairs[i].value.v)

\* A second decode, of the empty object, into a map that held entries.
C21_Witness ==
    /\ pout.done
    /\ pout.err = ""
    /\ pin.n = 2
    /\ pout.before.k = "map"
    /\ DOMAIN pout.before.m # {}
    /\ pout.obj.pairs = <<>>
    /\ DOMAIN pin.m.m = {}

----------------------------------------------------------------------------
\* format of a document that carries comments

MaxCPairs == 2

\* writeNode's loop over the statements of a Document from the i-th on
RECURSIVE writeStatementsFrom(_, _, _, _)
writeStatementsFrom(stmts, i, o, acc) ==
    IF i > Len(stmts) THEN FRes("", acc)
    ELSE LET r == writeNode(stmts[i].expr, o, 0) IN
         IF r.err # "" THEN FRes(r.err, acc)
         ELSE writeStatementsFrom(stmts, i + 1, o,
                                  acc \o r.s \o (IF i < Len(stmts) THEN <<10>> ELSE <<>>))

\* writeNode on a Document: the head comments, one to a line, then the
\* statements
writeDocument(d, o) ==
    writeStatementsFrom(d.stmts, 1, o,
                        Flatten([i \in DOMAIN d.head |-> CommentText(d.head[i]) \o <<10>>]))

Cmt(r) == [value |-> <<r>>, line |-> 0, column |-> 0]

\* A comment that is there or not
Opt(r) == {<<>>, <<Cmt(r)>>}

\* The pairs a: 1 and b: 1 with their comments, each comment of a text of
\* its own
CPairsA ==
    { [key |-> [k |-> "ident", v |-> KeyA], value |-> [k |-> "int", v |-> 1, lit |-> <<49>>],
       head |-> h, nl |-> 1, line |-> l, foot |-> f] :
        h \in Opt(112), l \in Opt(113), f \in Opt(114) }

CPairsB ==
    { [key |-> [k |-> "ident", v |-> KeyB], value |-> [k |-> "int", v |-> 1, lit |-> <<49>>],
       head |-> h, nl |-> 1, line |-> l, foot |-> f] :
        h \in Opt(117), l \in Opt(118), f \in Opt(119) }

CObjects ==
    { [k |-> "object", pairs |-> ps] :
        ps \in { q \in SeqsUpTo(CPairsA \cup CPairsB, MaxCPairs) :
                   /\ Len(q) >= 1
                   /\ q[1] \in CPairsA
                   /\ Len(q) >= 2 => q[2] \in CPairsB } }

CDocs == [head : Opt(104), stmts : { <<[expr |-> e]>> : e \in CObjects }]

COptions ==
    [indent : {0, defaultIndent}, inlineStrings : {FALSE}, inlineArrays : {FALSE},
     useFieldCommas : BOOLEAN, useTrailingCommas : {FALSE}]

InitCFmt ==
    /\ pin \in [doc : CDocs, opts : COptions]
    /\ pout = [done |-> FALSE]
    /\ LexIdle(<<>>)
    /\ ParIdle
    /\ EncIdle
    /\ DecIdle
    /\ FldIdle
    /\ RtIdle

\* f.format(doc)
FormatDocument ==
    /\ ~pout.done
    /\ pout' = [done |-> TRUE, res |-> writeDocument(pin.doc, pin.opts)]
    /\ UNCHANGED <<pin, notFnVars>>

NextCFmt ==
    \/ FormatDocument

SpecCFmt == InitCFmt /\ [][NextCFmt]_vars

\* Where sub stands in s
Places(s, sub) ==
    { i \in 1..(Len(s) - Len(sub) + 1) : SubSeq(s, i, i + Len(sub) - 1) = sub }

\* What the text holds in the order of the document: the head comments of
\* the document, then for each pair its head comments, its key, its line
\* comment and its foot comments.
RECURSIVE PairItems(_, _)
PairItems(pairs, i) ==
    IF i > Len(pairs) THEN <<>>
    ELSE [j \in DOMAIN pairs[i].head |-> CommentText(pairs[i].head[j])]
         \o <<pairs[i].key.v \o <<58>>>>
         \o [j \in DOMAIN pairs[i].line |-> CommentText(pairs[i].line[j])]
         \o [j \in DOMAIN pairs[i].foot |-> CommentText(pairs[i].foot[j])]
         \o PairItems(pairs, i + 1)

DocItems(d) ==
    [j \in DOMAIN d.head |-> CommentText(d.head[j])]
        \o PairItems(d.stmts[1].expr.pairs, 1)

\* C23: format writes each comment of the document once and in its place:
\* the head comments of the document before the root value, the head comments
\* of a pair before its key, its line comment and then its foot comments
\* after the key and before what belongs to the next pair.
C23_CommentsWrittenOnce ==
    pout.done =>
        LET items == DocItems(pin.doc)
            text == pout.res.s
        IN  /\ pout.res.err = ""
            /\ \A i \in DOMAIN items : Cardinality(Places(text, items[i])) = 1
            /\ \A i, j \in DOMAIN items :
                  i < j => \A a \in Places(text, items[i]), b \in Places(text, items[j]) :
                              a < b

----------------------------------------------------------------------------
\* format of an array

MaxArrElems == 2
MaxArrNest == 2

IntOne == [k |-> "int", v |-> 1, lit |-> <<49>>]

\* The leaves of the arrays: 1, "a", the string of a, LF, b, and the objects
\* {} and {a: 1}.
ArrLeaves ==
    { IntOne, [k |-> "string", v |-> <<97>>], [k |-> "string", v |-> <<97, 10, 98>>],
      [k |-> "object", pairs |-> <<>>],
      [k |-> "object",
       pairs |-> <<EmptyPair([k |-> "ident", v |-> KeyA], IntOne)>>] }

\* The arrays nested at most n deep, of up to MaxArrElems elements
RECURSIVE ArrNodes(_)
ArrNodes(n) ==
    LET E == IF n = 1 THEN ArrLeaves ELSE ArrLeaves \cup ArrNodes(n - 1) IN
    { [k |-> "array", elems |-> es] : es \in SeqsUpTo(E, MaxArrElems) }

ArrOptions ==
    [indent : {0, defaultIndent}, inlineStrings : BOOLEAN, inlineArrays : BOOLEAN,
     useFieldCommas : BOOLEAN, useTrailingCommas : {FALSE}]

InitArr ==
    /\ pin \in [node : ArrNodes(MaxArrNest), opts : ArrOptions]
    /\ pout = [done |-> FALSE]
    /\ LexIdle(<<>>)
    /\ ParIdle
    /\ EncIdle
    /\ DecIdle
    /\ FldIdle
    /\ RtIdle

\* f.format(arr)
FormatArray ==
    /\ ~pout.done
    /\ pout' = [done |-> TRUE, res |-> writeNode(pin.node, pin.opts, 0)]
    /\ UNCHANGED <<pin, notFnVars>>

NextArr ==
    \/ FormatArray

SpecArr == InitArr /\ [][NextArr]_vars

\* C24: with inlineArrays the text of an array, from its [ to its ], holds
\* no newline, whatever the indent and the elements.
C24_InlineArrayOneLine ==
    (pout.done /\ pin.opts.inlineArrays /\ pout.res.err = "") =>
        ~ContainsRune(pout.res.s, 10)

----------------------------------------------------------------------------
\* The text of a string value, and the tokens the lexer makes of it

MaxQuotedLen == 4

\* The runes of the values:  a  LF  CR  and the double quote.
StrRunes == {97, 10, 13, 34}

StrOptions ==
    [indent : {0, defaultIndent}, inlineStrings : BOOLEAN, inlineArrays : {FALSE},
     useFieldCommas : {FALSE}, useTrailingCommas : {FALSE}]

InitStr ==
    /\ pin \in [v : SeqsUpTo(StrRunes, MaxQuotedLen), opts : StrOptions]
    /\ pout = [done |-> FALSE]
    /\ LexIdle(<<>>)
    /\ ParIdle
    /\ EncIdle
    /\ DecIdle
    /\ FldIdle
    /\ RtIdle

\* f.format of the StringLiteral of the value, and the lexer on the text
FormatString ==
    /\ ~pout.done
    /\ pout' = LET r == writeNode([k |-> "string", v |-> pin.v], pin.opts, 0) IN
               [done |-> TRUE, res |-> r, toks |-> LexAll(r.s)]
    /\ UNCHANGED <<pin, notFnVars>>

NextStr ==
    \/ FormatString

SpecStr == InitStr /\ [][NextStr]_vars

\* The text starts with the opener of the triple-quoted form.
TripleQuoted(s) == Len(s) >= 3 /\ SubSeq(s, 1, 3) = tripleQuote

\* C27: the text of a value written in the triple-quoted form is lexed as
\* one STRING token, whose literal is the value, followed by EOF.
C27_TripleQuotedLexesBack ==
    (pout.done /\ pout.res.err = "" /\ TripleQuoted(pout.res.s)) =>
        /\ Len(pout.toks) = 2
        /\ pout.toks[1].type = "STRING"
        /\ pout.toks[1].lit = pin.v
        /\ pout.toks[2].type = "EOF"

----------------------------------------------------------------------------
\* Decoder.Decode on a reader that delivers some bytes and then reports an
\* error: io.EOF, or a failure of the stream

MaxReadChunks == 3

\* What Read reports once the bytes are delivered
ReadErrors == {"EOF", "failure"}

ReadInputs == { Flatten(cs) : cs \in SeqsUpTo(DocChunks, MaxReadChunks) }

\* src holds the bytes the reader delivers before its error.  readRune sets
\* ch to -1 on every error of ReadRune, so the lexer is at the end of src
\* whatever the error is.
InitRead ==
    /\ src \in ReadInputs
    /\ LexIdle(src)
    /\ ParIdle
    /\ pin \in [stage : {"start"}, rerr : ReadErrors]
    /\ pout = [done |-> FALSE]
    /\ EncIdle
    /\ DecIdle
    /\ FldIdle
    /\ RtIdle

\* Decoder.Decode after Parse: the errors of the parser, or decodeDocument
\* into var v any
ReadDecode ==
    /\ pin.stage = "decode"
    /\ pc = "done"
    /\ ~pout.done
    /\ pout' = [done |-> TRUE, dec |-> DecodeAny(doc, perrs)]
    /\ UNCHANGED <<pin, notFnVars>>

NextRead ==
    \/ DocParse
    \/ ParseStart
    \/ ParseExpressionNoPrefix
    \/ ParseExpressionLeaf
    \/ ParseArrayOpen
    \/ ParseArrayElement
    \/ ParseObjectOpen
    \/ ParseObjectLoop
    \/ ParsePairValue
    \/ ParseFinish
    \/ ReadDecode

SpecRead == InitRead /\ [][NextRead]_vars

\* C28: Decode on a reader whose stream fails returns an error.
C28_ReadFailureIsError ==
    (pout.done /\ pin.rerr # "EOF") => pout.dec.err # ""

----------------------------------------------------------------------------
\* The tokens of a text with LF line endings, and of the same text with CRLF
\* line endings

MaxCrlfLen == 4

\* The runes of the texts:  a  #  [  space  and LF; no quote, so no string.
CrlfRunes == {97, 35, 91, 32, 10}

\* Every LF of the text replaced by CR LF
Crlf(s) == Flatten([i \in DOMAIN s |-> IF s[i] = 10 THEN <<13, 10>> ELSE <<s[i]>>])

InitCrlf ==
    /\ pin \in [text : SeqsUpTo(CrlfRunes, MaxCrlfLen), stage : {"lf"}]
    /\ pout = [done |-> FALSE]
    /\ LexIdle(<<>>)
    /\ ParIdle
    /\ EncIdle
    /\ DecIdle
    /\ FldIdle
    /\ RtIdle

\* NextToken up to EOF, on a lexer for the text with LF line endings and then
\* on a lexer for the text with CRLF line endings
LexEnding ==
    /\ ~pout.done
    /\ pin' = [text |-> pin.text, stage |-> "crlf",
               toks |-> LexAll(IF pin.stage = "lf" THEN pin.text ELSE Crlf(pin.text)),
               lf |-> IF pin.stage = "lf" THEN <<>> ELSE pin.toks]
    /\ pout' = [done |-> pin.stage = "crlf"]
    /\ UNCHANGED notFnVars

NextCrlf ==
    \/ LexEnding

SpecCrlf == InitCrlf /\ [][NextCrlf]_vars

\* C29: the text with CRLF line endings has the tokens of the text with LF
\* line endings: the same kinds in the same order, and the same literals but
\* for the NEWLINE tokens.
C29_CrlfSameTokens ==
    pout.done =>
        /\ Len(pin.toks) = Len(pin.lf)
        /\ \A i \in DOMAIN pin.lf :
              i \in DOMAIN pin.toks =>
                  /\ pin.toks[i].type = pin.lf[i].type
                  /\ pin.lf[i].type # "NEWLINE" =>
                        /\ pin.toks[i].lit = pin.lf[i].lit
                        /\ pin.toks[i].msg = pin.lf[i].msg

====
